---- MODULE Spec2Model ----
(***************************************************************************)
(* Bitcoin Script Hex <-> ASM editor (src/src/App.jsx): the codec          *)
(* (asmToBytes, bytesToAsm, pushPrefix), the offset mapping                *)
(* (computeLineArray, computePcWordMap) and the debug session of App.      *)
(*                                                                         *)
(* Text is a sequence of one-character strings, bytecode a sequence of     *)
(* integers 0..255.  A function that can throw returns a record            *)
(* [ok, val, msg, tok]: val is the returned value, msg \o tok the message  *)
(* of the thrown Error.                                                    *)
(***************************************************************************)
EXTENDS Integers, Sequences, FiniteSets, TLC

\* -------------------- characters and strings --------------------
LowerHex == <<"0","1","2","3","4","5","6","7","8","9","a","b","c","d","e","f">>

UpperAlpha == <<"A","B","C","D","E","F","G","H","I","J","K","L","M","N","O","P","Q","R","S","T","U","V","W","X","Y","Z">>

LowerAlpha == <<"a","b","c","d","e","f","g","h","i","j","k","l","m","n","o","p","q","r","s","t","u","v","w","x","y","z">>

DecDigits == {"0","1","2","3","4","5","6","7","8","9"}

HexChars == DecDigits \cup {"a","b","c","d","e","f","A","B","C","D","E","F"}

UpperChars == {UpperAlpha[i] : i \in 1..26}

\* the characters the regular expression class \s and String.trim() remove
Whitespace == {" ", "\n", "\t"}

IsWs(c) == c \in Whitespace

toLowerCase(c) ==
    IF c \in UpperChars
    THEN LowerAlpha[CHOOSE i \in 1..26 : UpperAlpha[i] = c]
    ELSE c

\* a function with domain 1..n as a sequence value
AsSeq(f) == SubSeq(f, 1, Len(f))

\* const v = ...; F(v): the value is computed once, where it is bound
With(v, F(_)) == CHOOSE r \in {F(x) : x \in {v}} : TRUE

Min(a, b) == IF a <= b THEN a ELSE b

Max(a, b) == IF a >= b THEN a ELSE b

RECURSIVE SortedSeq(_)
SortedSeq(S) ==
    IF S = {} THEN <<>>
    ELSE LET m == CHOOSE x \in S : \A y \in S : x <= y
         IN  <<m>> \o SortedSeq(S \ {m})

\* s.trim()
trim(str) ==
    With(str, LAMBDA s :
    IF \A i \in 1..Len(s) : IsWs(s[i]) THEN <<>>
    ELSE LET a == CHOOSE i \in 1..Len(s) : ~IsWs(s[i]) /\ \A k \in 1..(i-1) : IsWs(s[k])
             d == CHOOSE e \in 0..(Len(s)-1) :
                     ~IsWs(s[Len(s)-e]) /\ \A k \in (Len(s)-e+1)..Len(s) : IsWs(s[k])
         IN  SubSeq(s, a, Len(s) - d))

\* the maximal runs of non-whitespace characters of s, in order
Tokens(str) ==
    With(str, LAMBDA s :
    With(SortedSeq({i \in 1..Len(s) : ~IsWs(s[i]) /\ (i = 1 \/ IsWs(s[i-1]))}),
    LAMBDA starts :
    With(SortedSeq({i \in 1..Len(s) : ~IsWs(s[i]) /\ (i = Len(s) \/ IsWs(s[i+1]))}),
    LAMBDA ends :
    AsSeq([k \in 1..Len(starts) |-> SubSeq(s, starts[k], ends[k])]))))

\* s.split(/\s+/g): the runs between whitespace runs, empty strings included
splitWs(str) ==
    With(str, LAMBDA s :
    IF s = <<>> THEN << <<>> >>
    ELSE (IF IsWs(s[1]) THEN << <<>> >> ELSE <<>>)
         \o Tokens(s)
         \o (IF IsWs(s[Len(s)]) THEN << <<>> >> ELSE <<>>))

\* s.split("\n")
splitLines(str) ==
    With(str, LAMBDA s :
    With(SortedSeq({i \in 1..Len(s) : s[i] = "\n"}), LAMBDA nl :
    AsSeq([k \in 1..(Len(nl) + 1) |->
              SubSeq(s, IF k = 1 THEN 1 ELSE nl[k-1] + 1,
                        IF k = Len(nl) + 1 THEN Len(s) ELSE nl[k] - 1)])))

RECURSIVE join(_, _)
\* parts.join(sep)
join(array, sep) ==
    With(array, LAMBDA parts :
    IF parts = <<>> THEN <<>>
    ELSE IF Len(parts) = 1 THEN parts[1]
    ELSE parts[1] \o sep \o join(Tail(parts), sep))

startsWith(s, c) == Len(s) >= 1 /\ s[1] = c

endsWith(s, c) == Len(s) >= 1 /\ s[Len(s)] = c

\* String(n) for the integers the program prints
RECURSIVE String(_)
String(n) ==
    IF n < 0 THEN <<"-">> \o String(0 - n)
    ELSE IF n < 10 THEN <<LowerHex[n + 1]>>
    ELSE String(n \div 10) \o <<LowerHex[(n % 10) + 1]>>

Ok(v) == [ok |-> TRUE, val |-> v, msg |-> "", tok |-> <<>>]

Throw(m, t) == [ok |-> FALSE, val |-> <<>>, msg |-> m, tok |-> t]

\* -------------------- Opcode Tables --------------------
\* Object.entries(OPC), in declaration order: <<name, value>>
OPC ==
    <<
       <<<<"O","P","_","0">>, 0>>,
       <<<<"O","P","_","F","A","L","S","E">>, 0>>,
       <<<<"O","P","_","T","R","U","E">>, 81>>,
       <<<<"O","P","_","P","U","S","H","D","A","T","A","1">>, 76>>,
       <<<<"O","P","_","P","U","S","H","D","A","T","A","2">>, 77>>,
       <<<<"O","P","_","P","U","S","H","D","A","T","A","4">>, 78>>,
       <<<<"O","P","_","1","N","E","G","A","T","E">>, 79>>,
       <<<<"O","P","_","R","E","S","E","R","V","E","D">>, 80>>,
       <<<<"O","P","_","1">>, 81>>,
       <<<<"O","P","_","2">>, 82>>,
       <<<<"O","P","_","3">>, 83>>,
       <<<<"O","P","_","4">>, 84>>,
       <<<<"O","P","_","5">>, 85>>,
       <<<<"O","P","_","6">>, 86>>,
       <<<<"O","P","_","7">>, 87>>,
       <<<<"O","P","_","8">>, 88>>,
       <<<<"O","P","_","9">>, 89>>,
       <<<<"O","P","_","1","0">>, 90>>,
       <<<<"O","P","_","1","1">>, 91>>,
       <<<<"O","P","_","1","2">>, 92>>,
       <<<<"O","P","_","1","3">>, 93>>,
       <<<<"O","P","_","1","4">>, 94>>,
       <<<<"O","P","_","1","5">>, 95>>,
       <<<<"O","P","_","1","6">>, 96>>,
       <<<<"O","P","_","N","O","P">>, 97>>,
       <<<<"O","P","_","I","F">>, 99>>,
       <<<<"O","P","_","N","O","T","I","F">>, 100>>,
       <<<<"O","P","_","E","L","S","E">>, 103>>,
       <<<<"O","P","_","E","N","D","I","F">>, 104>>,
       <<<<"O","P","_","V","E","R","I","F","Y">>, 105>>,
       <<<<"O","P","_","R","E","T","U","R","N">>, 106>>,
       <<<<"O","P","_","T","O","A","L","T","S","T","A","C","K">>, 107>>,
       <<<<"O","P","_","F","R","O","M","A","L","T","S","T","A","C","K">>, 108>>,
       <<<<"O","P","_","I","F","D","U","P">>, 115>>,
       <<<<"O","P","_","D","E","P","T","H">>, 116>>,
       <<<<"O","P","_","D","R","O","P">>, 117>>,
       <<<<"O","P","_","D","U","P">>, 118>>,
       <<<<"O","P","_","N","I","P">>, 119>>,
       <<<<"O","P","_","O","V","E","R">>, 120>>,
       <<<<"O","P","_","P","I","C","K">>, 121>>,
       <<<<"O","P","_","R","O","L","L">>, 122>>,
       <<<<"O","P","_","R","O","T">>, 123>>,
       <<<<"O","P","_","S","W","A","P">>, 124>>,
       <<<<"O","P","_","T","U","C","K">>, 125>>,
       <<<<"O","P","_","E","Q","U","A","L">>, 135>>,
       <<<<"O","P","_","E","Q","U","A","L","V","E","R","I","F","Y">>, 136>>,
       <<<<"O","P","_","1","A","D","D">>, 139>>,
       <<<<"O","P","_","1","S","U","B">>, 140>>,
       <<<<"O","P","_","N","E","G","A","T","E">>, 143>>,
       <<<<"O","P","_","A","B","S">>, 144>>,
       <<<<"O","P","_","N","O","T">>, 145>>,
       <<<<"O","P","_","0","N","O","T","E","Q","U","A","L">>, 146>>,
       <<<<"O","P","_","A","D","D">>, 147>>,
       <<<<"O","P","_","S","U","B">>, 148>>,
       <<<<"O","P","_","B","O","O","L","A","N","D">>, 154>>,
       <<<<"O","P","_","B","O","O","L","O","R">>, 155>>,
       <<<<"O","P","_","N","U","M","E","Q","U","A","L">>, 156>>,
       <<<<"O","P","_","N","U","M","E","Q","U","A","L","V","E","R","I","F","Y">>, 157>>,
       <<<<"O","P","_","N","U","M","N","O","T","E","Q","U","A","L">>, 158>>,
       <<<<"O","P","_","L","E","S","S","T","H","A","N">>, 159>>,
       <<<<"O","P","_","G","R","E","A","T","E","R","T","H","A","N">>, 160>>,
       <<<<"O","P","_","L","E","S","S","T","H","A","N","O","R","E","Q","U","A","L">>, 161>>,
       <<<<"O","P","_","G","R","E","A","T","E","R","T","H","A","N","O","R","E","Q","U","A","L">>, 162>>,
       <<<<"O","P","_","M","I","N">>, 163>>,
       <<<<"O","P","_","M","A","X">>, 164>>,
       <<<<"O","P","_","W","I","T","H","I","N">>, 165>>,
       <<<<"O","P","_","R","I","P","E","M","D","1","6","0">>, 166>>,
       <<<<"O","P","_","S","H","A","1">>, 167>>,
       <<<<"O","P","_","S","H","A","2","5","6">>, 168>>,
       <<<<"O","P","_","H","A","S","H","1","6","0">>, 169>>,
       <<<<"O","P","_","H","A","S","H","2","5","6">>, 170>>,
       <<<<"O","P","_","C","O","D","E","S","E","P","A","R","A","T","O","R">>, 171>>,
       <<<<"O","P","_","C","H","E","C","K","S","I","G">>, 172>>,
       <<<<"O","P","_","C","H","E","C","K","S","I","G","V","E","R","I","F","Y">>, 173>>,
       <<<<"O","P","_","C","H","E","C","K","M","U","L","T","I","S","I","G">>, 174>>,
       <<<<"O","P","_","C","H","E","C","K","M","U","L","T","I","S","I","G","V","E","R","I","F","Y">>, 175>>,
       <<<<"O","P","_","N","O","P","1">>, 176>>,
       <<<<"O","P","_","C","H","E","C","K","L","O","C","K","T","I","M","E","V","E","R","I","F","Y">>, 177>>,
       <<<<"O","P","_","C","H","E","C","K","S","E","Q","U","E","N","C","E","V","E","R","I","F","Y">>, 178>>,
       <<<<"O","P","_","N","O","P","4">>, 179>>,
       <<<<"O","P","_","N","O","P","5">>, 180>>,
       <<<<"O","P","_","N","O","P","6">>, 181>>,
       <<<<"O","P","_","N","O","P","7">>, 182>>,
       <<<<"O","P","_","N","O","P","8">>, 183>>,
       <<<<"O","P","_","N","O","P","9">>, 184>>,
       <<<<"O","P","_","N","O","P","1","0">>, 185>>
    >>

OpcNames == {OPC[k][1] : k \in 1..Len(OPC)}

\* OPC[t]
OpcValue(t) == OPC[CHOOSE k \in 1..Len(OPC) : OPC[k][1] = t][2]

OP_0 == OpcValue(<<"O","P","_","0">>)

OP_PUSHDATA1 == OpcValue(<<"O","P","_","P","U","S","H","D","A","T","A","1">>)

OP_PUSHDATA2 == OpcValue(<<"O","P","_","P","U","S","H","D","A","T","A","2">>)

OP_PUSHDATA4 == OpcValue(<<"O","P","_","P","U","S","H","D","A","T","A","4">>)

OP_1NEGATE == OpcValue(<<"O","P","_","1","N","E","G","A","T","E">>)

OP_1 == OpcValue(<<"O","P","_","1">>)

OP_16 == OpcValue(<<"O","P","_","1","6">>)

RECURSIVE val2nameLoop_lastWins(_, _, _)
\* the forEach without its map.has test: a later entry replaces an earlier one
val2nameLoop_lastWins(lo, hi, map) ==
    IF lo > hi THEN map
    ELSE IF lo = hi THEN (OPC[lo][2] :> OPC[lo][1]) @@ map
    ELSE With(val2nameLoop_lastWins(lo, (lo + hi) \div 2, map), LAMBDA m :
         val2nameLoop_lastWins((lo + hi) \div 2 + 1, hi, m))

RECURSIVE val2nameLoop(_, _, _)
\* Object.entries(OPC).forEach(([k, v]) => { if (!map.has(v)) map.set(v, k) })
\* over the entries lo..hi in their order (the first half, then the second)
val2nameLoop(lo, hi, map) ==
    IF lo > hi THEN map
    ELSE IF lo = hi
    THEN (IF OPC[lo][2] \in DOMAIN map THEN map ELSE (OPC[lo][2] :> OPC[lo][1]) @@ map)
    ELSE With(val2nameLoop(lo, (lo + hi) \div 2, map), LAMBDA m :
         val2nameLoop((lo + hi) \div 2 + 1, hi, m))

\* the Map from byte value to name
VAL2NAME == val2nameLoop(1, Len(OPC), <<>>)

\* VAL2NAME.has(v)
VAL2NAME_has(v) == v \in DOMAIN VAL2NAME

\* VAL2NAME.get(v)
VAL2NAME_get(v) == VAL2NAME[v]

\* -------------------- Helpers --------------------
isHex(s) == \A i \in 1..Len(s) : s[i] \in HexChars

cleanHex(s) ==
    With(SelectSeq(s, LAMBDA c : ~IsWs(c)), LAMBDA kept :
    AsSeq([i \in 1..Len(kept) |-> toLowerCase(kept[i])]))

HexDigitValue(c) == (CHOOSE i \in 1..16 : LowerHex[i] = toLowerCase(c)) - 1

hexToBytes(hex) ==
    With(cleanHex(hex), LAMBDA h :
    IF ~isHex(h) THEN Throw("Invalid hex format", <<>>)
    ELSE IF Len(h) % 2 # 0 THEN Throw("Invalid hex: odd length", <<>>)
    ELSE Ok(AsSeq([i \in 1..(Len(h) \div 2) |->
                16 * HexDigitValue(h[2*i - 1]) + HexDigitValue(h[2*i])])))

\* bytesToHex with uppercase digits
bytesToHex_upper(arr) ==
    LET upper == <<"0","1","2","3","4","5","6","7","8","9","A","B","C","D","E","F">>
    IN  With(arr, LAMBDA bytes :
        AsSeq([i \in 1..(2 * Len(bytes)) |->
            IF i % 2 = 1 THEN upper[(bytes[(i + 1) \div 2] \div 16) + 1]
            ELSE upper[(bytes[i \div 2] % 16) + 1]]))

bytesToHex(arr) ==
    With(arr, LAMBDA bytes :
    AsSeq([i \in 1..(2 * Len(bytes)) |->
        IF i % 2 = 1 THEN LowerHex[(bytes[(i + 1) \div 2] \div 16) + 1]
        ELSE LowerHex[(bytes[i \div 2] % 16) + 1]]))

\* pushPrefix with the single-byte tier one length too wide
pushPrefix_wide(len) ==
    IF len <= 76 THEN <<len % 256>>
    ELSE IF len <= 255 THEN <<OP_PUSHDATA1, len % 256>>
    ELSE IF len <= 65535 THEN <<OP_PUSHDATA2, len % 256, (len \div 256) % 256>>
    ELSE <<OP_PUSHDATA4, len % 256, (len \div 256) % 256,
           (len \div 65536) % 256, (len \div 16777216) % 256>>

\* pushPrefix with the PUSHDATA2 length written big-endian
pushPrefix_bigEndian(len) ==
    IF len <= 75 THEN <<len % 256>>
    ELSE IF len <= 255 THEN <<OP_PUSHDATA1, len % 256>>
    ELSE IF len <= 65535 THEN <<OP_PUSHDATA2, (len \div 256) % 256, len % 256>>
    ELSE <<OP_PUSHDATA4, len % 256, (len \div 256) % 256,
           (len \div 65536) % 256, (len \div 16777216) % 256>>

\* Encode pushdata prefix for a data buffer of length len.
pushPrefix(len) ==
    IF len <= 75 THEN <<len % 256>>
    ELSE IF len <= 255 THEN <<OP_PUSHDATA1, len % 256>>
    ELSE IF len <= 65535 THEN <<OP_PUSHDATA2, len % 256, (len \div 256) % 256>>
    ELSE <<OP_PUSHDATA4, len % 256, (len \div 256) % 256,
           (len \div 65536) % 256, (len \div 16777216) % 256>>

\* -------------------- ASM -> HEX --------------------
\* asm.trim().replace(/\s+/g, " ").split(" ").filter(Boolean)
asmTokens(asm) == Tokens(asm)

\* pushData: the prefix for the payload, then the payload
pushData(dataBytes) == pushPrefix(Len(dataBytes)) \o dataBytes

\* a match of any content between the brackets: /^<(.*)>$/
matchBracketHex_anyContent(t) ==
    /\ Len(t) >= 2
    /\ t[1] = "<"
    /\ t[Len(t)] = ">"

\* t.match(/^<([0-9a-fA-F]+)>$/)
matchBracketHex(t) ==
    /\ Len(t) >= 3
    /\ t[1] = "<"
    /\ t[Len(t)] = ">"
    /\ \A i \in 2..(Len(t) - 1) : t[i] \in HexChars

\* a match of one decimal digit only: /^[0-9]$/
matchSmallInt_oneDigit(t) == Len(t) = 1 /\ t[1] \in DecDigits

\* /^(0|1[0-6]?|[1-9])$/.test(t)
matchSmallInt(t) ==
    \/ Len(t) = 1 /\ t[1] \in DecDigits
    \/ Len(t) = 2 /\ t[1] = "1" /\ t[2] \in {"0","1","2","3","4","5","6"}

\* Number(t) for a token that matchSmallInt accepts
Number(t) ==
    IF Len(t) = 1 THEN HexDigitValue(t[1])
    ELSE 10 * HexDigitValue(t[1]) + HexDigitValue(t[2])

\* /^OP_[A-Z0-9_]+$/.test(t)
matchOpName(t) ==
    /\ Len(t) >= 4
    /\ t[1] = "O" /\ t[2] = "P" /\ t[3] = "_"
    /\ \A i \in 4..Len(t) : t[i] \in UpperChars \cup DecDigits \cup {"_"}

\* one pass of the token loop: the bytes the token appends, or the Error thrown
encodeToken(t) ==
    IF matchBracketHex(t)
    THEN With(SubSeq(t, 2, Len(t) - 1), LAMBDA h :
         IF ~isHex(h) \/ Len(h) % 2 # 0 THEN Throw("Invalid hex data: ", t)
         ELSE Ok(pushData(hexToBytes(h).val)))
    ELSE IF t = <<"-","1">> THEN Ok(<<OP_1NEGATE>>)
    ELSE IF matchSmallInt(t) /\ Number(t) = 0 THEN Ok(<<OP_0>>)
    ELSE IF matchSmallInt(t) /\ Number(t) >= 1 /\ Number(t) <= 16
         THEN Ok(<<OP_1 + (Number(t) - 1)>>)
    ELSE IF matchOpName(t)
         THEN IF t \notin OpcNames THEN Throw("Unknown opcode: ", t)
              ELSE Ok(<<OpcValue(t)>>)
    ELSE IF isHex(t)
         THEN IF Len(t) % 2 # 0 THEN Throw("Odd-length hex: ", t)
              ELSE Ok(pushData(hexToBytes(t).val))
    ELSE Throw("Unrecognized token: ", t)

RECURSIVE asmLoop(_, _, _)
asmLoop(tokens, k, out) ==
    IF k > Len(tokens) THEN Ok(out)
    ELSE With(encodeToken(tokens[k]), LAMBDA e :
         IF e.ok THEN asmLoop(tokens, k + 1, out \o e.val) ELSE e)

asmToBytes(asm) == With(asmTokens(asm), LAMBDA tokens : asmLoop(tokens, 1, <<>>))

asmToHex(asm) ==
    With(asmToBytes(asm), LAMBDA b : IF b.ok THEN Ok(bytesToHex(b.val)) ELSE b)

\* -------------------- HEX -> ASM --------------------
\* 2^31 - 1: a length of 2^31 or more is kept as this value; it is only
\* compared with the number of bytes left, which is smaller
HugeLength == 2147483647

\* readLE(n) at cursor i (0-based): bytes past the end read as undefined,
\* and undefined << k is 0
readLE(bytes, i, n) ==
    LET b(k) == IF k < n /\ i + k < Len(bytes) THEN bytes[i + k + 1] ELSE 0
    IN  IF b(3) >= 128 THEN HugeLength
        ELSE b(0) + 256 * b(1) + 65536 * b(2) + 16777216 * b(3)

\* bytes.slice(i, i + len).length
sliceLength(bytes, i, len) ==
    IF i >= Len(bytes) THEN 0
    ELSE IF len <= Len(bytes) - i THEN len
    ELSE Len(bytes) - i

\* dataToken without the last payload byte
dataToken_short(bytes, i, len) ==
    <<"<">> \o bytesToHex(SubSeq(bytes, i + 1, i + len - 1)) \o <<">">>

\* `<${bytesToHex(bytes.slice(i, i + len))}>`
dataToken(bytes, i, len) == <<"<">> \o bytesToHex(SubSeq(bytes, i + 1, i + len)) \o <<">">>

\* the push at cursor i (after the opcode and n length bytes): its token and the
\* cursor after it, or the Error thrown
readPush(bytes, i, len, what) ==
    IF sliceLength(bytes, i, len) # len THEN Throw(what, <<>>)
    ELSE Ok([token |-> dataToken(bytes, i, len), next |-> i + len])

\* decodeAt without the small-integer branch of byte OP_0
decodeAt_noZero(bytes, i) ==
    LET op == bytes[i + 1]
        j  == i + 1
    IN  IF op >= 1 /\ op <= 75 THEN readPush(bytes, j, op, "PUSHDATA truncated")
        ELSE IF op = OP_PUSHDATA1
             THEN readPush(bytes, j + 1, readLE(bytes, j, 1), "PUSHDATA1 truncated")
        ELSE IF op = OP_PUSHDATA2
             THEN readPush(bytes, j + 2, readLE(bytes, j, 2), "PUSHDATA2 truncated")
        ELSE IF op = OP_PUSHDATA4
             THEN readPush(bytes, j + 4, readLE(bytes, j, 4), "PUSHDATA4 truncated")
        ELSE IF op = OP_1NEGATE THEN Ok([token |-> <<"-","1">>, next |-> j])
        ELSE IF op >= OP_1 /\ op <= OP_16
             THEN Ok([token |-> String(op - OP_1 + 1), next |-> j])
        ELSE IF VAL2NAME_has(op) THEN Ok([token |-> VAL2NAME_get(op), next |-> j])
        ELSE Throw("Unknown opcode", <<>>)

\* decodeAt that renders a byte missing from the table as 0xNN
decodeAt_rawHex(bytes, i) ==
    LET op == bytes[i + 1]
        j  == i + 1
    IN  IF op >= 1 /\ op <= 75 THEN readPush(bytes, j, op, "PUSHDATA truncated")
        ELSE IF op = OP_PUSHDATA1
             THEN readPush(bytes, j + 1, readLE(bytes, j, 1), "PUSHDATA1 truncated")
        ELSE IF op = OP_PUSHDATA2
             THEN readPush(bytes, j + 2, readLE(bytes, j, 2), "PUSHDATA2 truncated")
        ELSE IF op = OP_PUSHDATA4
             THEN readPush(bytes, j + 4, readLE(bytes, j, 4), "PUSHDATA4 truncated")
        ELSE IF op = OP_0 THEN Ok([token |-> <<"0">>, next |-> j])
        ELSE IF op = OP_1NEGATE THEN Ok([token |-> <<"-","1">>, next |-> j])
        ELSE IF op >= OP_1 /\ op <= OP_16
             THEN Ok([token |-> String(op - OP_1 + 1), next |-> j])
        ELSE IF VAL2NAME_has(op) THEN Ok([token |-> VAL2NAME_get(op), next |-> j])
        ELSE Ok([token |-> <<"0","x">> \o bytesToHex(<<op>>), next |-> j])

\* one pass of the while loop at cursor i
decodeAt(bytes, i) ==
    LET op == bytes[i + 1]
        j  == i + 1
    IN  IF op >= 1 /\ op <= 75 THEN readPush(bytes, j, op, "PUSHDATA truncated")
        ELSE IF op = OP_PUSHDATA1
             THEN readPush(bytes, j + 1, readLE(bytes, j, 1), "PUSHDATA1 truncated")
        ELSE IF op = OP_PUSHDATA2
             THEN readPush(bytes, j + 2, readLE(bytes, j, 2), "PUSHDATA2 truncated")
        ELSE IF op = OP_PUSHDATA4
             THEN readPush(bytes, j + 4, readLE(bytes, j, 4), "PUSHDATA4 truncated")
        ELSE IF op = OP_0 THEN Ok([token |-> <<"0">>, next |-> j])
        ELSE IF op = OP_1NEGATE THEN Ok([token |-> <<"-","1">>, next |-> j])
        ELSE IF op >= OP_1 /\ op <= OP_16
             THEN Ok([token |-> String(op - OP_1 + 1), next |-> j])
        ELSE IF VAL2NAME_has(op) THEN Ok([token |-> VAL2NAME_get(op), next |-> j])
        ELSE Throw("Unknown opcode", <<>>)

RECURSIVE disLoop(_, _, _)
\* the while loop: Ok(out) once the cursor is past the end
disLoop(bytes, i, out) ==
    IF ~(i < Len(bytes)) THEN Ok(out)
    ELSE With(decodeAt(bytes, i), LAMBDA d :
         IF d.ok THEN disLoop(bytes, d.val.next, Append(out, d.val.token)) ELSE d)

\* the tokens bytesToAsm pushes to out
bytesToAsmTokens(bytes) == disLoop(bytes, 0, <<>>)

bytesToAsm(bytes) ==
    With(bytesToAsmTokens(bytes), LAMBDA r :
    IF r.ok THEN Ok(join(r.val, <<"\n">>)) ELSE r)

hexToAsm(hex) ==
    With(hexToBytes(cleanHex(hex)), LAMBDA b :
    IF ~b.ok THEN b
    ELSE IF Len(b.val) = 0 THEN Ok(<<>>)
    ELSE bytesToAsm(b.val))

\* -------------------- ASM -> PY, HEX -> CPP --------------------
\* the loop over terms: a term in angle brackets becomes 0x and its content
pyTerm(term) ==
    IF startsWith(term, "<") /\ endsWith(term, ">")
    THEN <<"0", "x">> \o SubSeq(term, 2, Len(term) - 1)
    ELSE term

asmToPy(raw_asm) ==
    With(asmToBytes(raw_asm), LAMBDA bytes :
    IF ~bytes.ok THEN bytes
    ELSE With(bytesToAsm(bytes.val), LAMBDA asm :
    IF ~asm.ok THEN asm
    ELSE With(splitWs(asm.val), LAMBDA terms :
    Ok(<<"[">>
       \o join(AsSeq([i \in 1..Len(terms) |-> pyTerm(terms[i])]), <<",", " ">>)
       \o <<"]">>))))

bytesToCpp(bytes) ==
    <<"{">>
    \o join(AsSeq([i \in 1..Len(bytes) |-> <<"0", "x">> \o bytesToHex(<<bytes[i]>>)]),
            <<",", " ">>)
    \o <<"}">>

hexToCpp(hex) ==
    With(hexToBytes(cleanHex(hex)), LAMBDA b :
    IF ~b.ok THEN b
    ELSE IF Len(b.val) = 0 THEN Ok(<<>>)
    ELSE Ok(bytesToCpp(b.val)))

\* -------------------- Offset mapping --------------------
\* Offsets are kept doubled: (term.length - 2) / 2 is a half-integer for a
\* bracketed term of odd length, so cur may be n + 1/2.  Twice(n) is the
\* stored form of the JS number n.
Twice(n) == 2 * n

NoError == [msg |-> "", tok |-> <<>>]

\* if (error): a non-empty message is truthy
isSet(error) == error.msg # ""

\* what one term adds to cur (doubled): the data-push tiers of
\* computeLineArray / computePcWordMap, then cur++
termAdvance(term) ==
    IF startsWith(term, "<") /\ endsWith(term, ">")
    THEN LET l2 == Len(term) - 2
         IN  (IF l2 < Twice(76) THEN l2
              ELSE IF Twice(75) < l2 /\ l2 < Twice(256) THEN Twice(1) + l2
              ELSE IF Twice(255) < l2 /\ l2 < Twice(521) THEN Twice(2) + l2
              ELSE Twice(4) + l2) + Twice(1)
    ELSE Twice(1)

RECURSIVE lineTerms(_, _, _)
\* the inner loop over the terms of one line: cur after the line
lineTerms(terms, j, cur) ==
    IF j > Len(terms) THEN cur
    ELSE IF terms[j] = <<>> THEN lineTerms(terms, j + 1, cur)
    ELSE lineTerms(terms, j + 1, cur + termAdvance(terms[j]))

RECURSIVE lineLoop(_, _, _, _)
lineLoop(lines, i, cur, lineArray) ==
    IF i > Len(lines) THEN lineArray
    ELSE lineLoop(lines, i + 1, lineTerms(splitWs(lines[i]), 1, cur),
                  Append(lineArray, cur))

\* computeLineArray: undefined when error is set, else the array
computeLineArray(asm, error) ==
    IF isSet(error) THEN [defined |-> FALSE, val |-> <<>>]
    ELSE [defined |-> TRUE, val |-> lineLoop(splitLines(trim(asm)), 1, 0, <<>>)]

\* lineArray[bp - 1]: undefined outside the array
elementAt(array, index) ==
    IF index \in 1..Len(array) THEN [defined |-> TRUE, val |-> array[index]]
    ELSE [defined |-> FALSE, val |-> 0]

\* computeBreakpointBytePositions: one entry per breakpoint, in the order of
\* the list; indexing an undefined lineArray throws a TypeError
computeBreakpointBytePositions(lineArray, breakpoints) ==
    IF ~lineArray.defined /\ breakpoints # <<>>
    THEN Throw("TypeError", <<>>)
    ELSE Ok(AsSeq([j \in 1..Len(breakpoints) |->
                      elementAt(lineArray.val, breakpoints[j])]))

\* obj[key] = value on a JS object kept as a function from keys to values
setKey(obj, key, value) == (key :> value) @@ obj

EmptyObject == <<>>

RECURSIVE pcLoop(_, _, _, _)
\* the for loop; i is the 0-based term index; returns the map and cur
pcLoop(terms, i, cur, wordMap) ==
    IF ~(i < Len(terms)) THEN [wordMap |-> wordMap, cur |-> cur]
    ELSE pcLoop(terms, i + 1, cur + termAdvance(terms[i + 1]), setKey(wordMap, cur, i))

\* computePcWordMap: keys are doubled offsets
computePcWordMap(asm) ==
    With(splitWs(trim(asm)), LAMBDA terms :
    With(pcLoop(terms, 0, 0, EmptyObject), LAMBDA r :
    setKey(r.wordMap, r.cur, Len(terms) - 1)))

\* -------------------- App: values --------------------
\* JS values of the state of App.  A trace is false, undefined or an array of
\* steps; debugWord is undefined, a number or NaN; status is false or the
\* string the engine reported; error is "" (NoError) or a message.
TraceFalse == [kind |-> "false", steps |-> <<>>]

TraceUndefined == [kind |-> "undefined", steps |-> <<>>]

TraceArray(steps) == [kind |-> "array", steps |-> steps]

\* !trace || trace.length == 0
noTrace(trace) == trace.kind # "array" \/ Len(trace.steps) = 0

Undefined == [kind |-> "undefined", n |-> 0]

Num(n) == [kind |-> "number", n |-> n]

NaN == [kind |-> "NaN", n |-> 0]

\* v in place of v + 1
plusOne_same(v) == v

\* v + 1
plusOne(v) == IF v.kind = "number" THEN Num(v.n + 1) ELSE NaN

\* pcWordMap[newPc.toString()]
lookup(pcWordMap, newPc) ==
    IF Twice(newPc) \in DOMAIN pcWordMap THEN Num(pcWordMap[Twice(newPc)]) ELSE Undefined

StatusFalse == "false"

\* e.message of a thrown Error
message(thrown) == [msg |-> thrown.msg, tok |-> thrown.tok]

NoInfo == [kind |-> "", n |-> 0, detail |-> ""]

\* `${(hex.length / 2).toString()} bytes`, or "" for the empty hex
bytesInfo(hex) ==
    IF hex = <<>> THEN NoInfo ELSE [kind |-> "bytes", n |-> Len(hex) \div 2, detail |-> ""]

SuccessInfo == [kind |-> "success", n |-> 0, detail |-> ""]

\* "warning sign " + detail
WarningInfo(detail) == [kind |-> "warning", n |-> 0, detail |-> detail]

ConnectionInfo == [kind |-> "connection error", n |-> 0, detail |-> ""]

\* what the functions of one render close over
Closure(s) ==
    [activeTab |-> s.activeTab, asm |-> s.asm, hex |-> s.hex,
     debAsm |-> s.debAsm, debHex |-> s.debHex, error |-> s.error,
     executionError |-> s.executionError]

\* -------------------- App: functions of the component --------------------
\* normalizeData that replaces the ASM text by the disassembly on every
\* normalization from another tab
normalizeData_alwaysDisassemble(c, s) ==
    IF c.activeTab = "ASM"
    THEN With(IF trim(c.debAsm) # <<>> THEN asmToHex(c.debAsm) ELSE Ok(<<>>),
         LAMBDA newHex :
         IF ~newHex.ok
         THEN [s EXCEPT !.info = NoInfo, !.error = message(newHex)]
         ELSE With(asmToPy(c.debAsm), LAMBDA py :
         IF ~py.ok
         THEN [s EXCEPT !.hex = newHex.val, !.info = NoInfo, !.error = message(py)]
         ELSE With(hexToCpp(newHex.val), LAMBDA cp :
         IF ~cp.ok
         THEN [s EXCEPT !.hex = newHex.val, !.python = py.val,
                        !.info = NoInfo, !.error = message(cp)]
         ELSE [s EXCEPT !.hex = newHex.val, !.python = py.val, !.cpp = cp.val,
                        !.error = NoError, !.info = bytesInfo(newHex.val)])))
    ELSE With(IF c.debHex # <<>> THEN cleanHex(c.debHex) ELSE <<>>, LAMBDA newHex :
         With(asmToHex(c.asm), LAMBDA cur :
         IF ~cur.ok
         THEN [s EXCEPT !.info = NoInfo, !.error = message(cur)]
         ELSE With(IF newHex # <<>> THEN hexToAsm(newHex) ELSE Ok(<<>>),
         LAMBDA newAsm :
         IF ~newAsm.ok
         THEN [s EXCEPT !.info = NoInfo, !.error = message(newAsm)]
         ELSE [s EXCEPT !.hex = newHex, !.asm = newAsm.val,
                        !.error = NoError, !.info = bytesInfo(cleanHex(newHex))])))

\* normalizeData of the render with closure c, its set-state calls applied in
\* order to the pending state s; a throw leaves the calls made before it
normalizeData(c, s) ==
    IF c.activeTab = "ASM"
    THEN With(IF trim(c.debAsm) # <<>> THEN asmToHex(c.debAsm) ELSE Ok(<<>>),
         LAMBDA newHex :
         IF ~newHex.ok
         THEN [s EXCEPT !.info = NoInfo, !.error = message(newHex)]
         ELSE With(asmToPy(c.debAsm), LAMBDA py :
         IF ~py.ok
         THEN [s EXCEPT !.hex = newHex.val, !.info = NoInfo, !.error = message(py)]
         ELSE With(hexToCpp(newHex.val), LAMBDA cp :
         IF ~cp.ok
         THEN [s EXCEPT !.hex = newHex.val, !.python = py.val,
                        !.info = NoInfo, !.error = message(cp)]
         ELSE [s EXCEPT !.hex = newHex.val, !.python = py.val, !.cpp = cp.val,
                        !.error = NoError, !.info = bytesInfo(newHex.val)])))
    ELSE With(IF c.debHex # <<>> THEN cleanHex(c.debHex) ELSE <<>>, LAMBDA newHex :
         With(asmToHex(c.asm), LAMBDA cur :
         IF ~cur.ok
         THEN [s EXCEPT !.info = NoInfo, !.error = message(cur)]
         ELSE With(IF cur.val # newHex
                   THEN (IF newHex # <<>> THEN hexToAsm(newHex) ELSE Ok(<<>>))
                   ELSE Ok(c.asm),
         LAMBDA newAsm :
         IF ~newAsm.ok
         THEN [s EXCEPT !.info = NoInfo, !.error = message(newAsm)]
         ELSE [s EXCEPT !.hex = newHex, !.asm = newAsm.val,
                        !.error = NoError, !.info = bytesInfo(cleanHex(newHex))])))

\* debAsm.trim().split(/\s+/)
termsOf(debAsm) == splitWs(trim(debAsm))

\* the state s and whether the function threw before returning
Returned(s) == [state |-> s, threw |-> FALSE]

Threw(s) == [state |-> s, threw |-> TRUE]

\* the step of trace shown at newDebugStep
shownStep(newDebugStep, trace) ==
    IF newDebugStep >= Len(trace.steps) THEN trace.steps[Len(trace.steps)]
    ELSE trace.steps[newDebugStep]

\* updateDebugStep after its normalizeData() left the pending state s1
showStep(c, s1, newDebugStep, pcWordMap, trace, status) ==
    With([s1 EXCEPT !.activeTab = "ASM", !.currentDebugStep = newDebugStep], LAMBDA s2 :
    IF newDebugStep = 0
    THEN Returned([s2 EXCEPT !.pc = 0, !.debugWord = Num(0), !.stackData = <<>>,
                             !.altStackData = <<>>, !.currentStepStatus = ""])
    \* trace.length of undefined, trace[...].pc of a missing step: TypeError
    ELSE IF trace.kind # "array" \/ Len(trace.steps) = 0 THEN Threw(s2)
    ELSE LET step         == shownStep(newDebugStep, trace)
             newPc        == IF newDebugStep > Len(trace.steps)
                             THEN trace.steps[Len(trace.steps)].pc
                             ELSE trace.steps[newDebugStep].pc
             newDebugWord == lookup(pcWordMap, newPc)
         IN  IF newDebugStep >= Len(trace.steps)
             THEN Returned([s2 EXCEPT
                     !.currentStepStatus = status,
                     !.info = IF status = "success" THEN SuccessInfo
                              ELSE WarningInfo(c.executionError),
                     !.debugWord = newDebugWord,
                     !.pc = newPc,
                     !.stackData = join(step.stack, <<"\n">>),
                     !.altStackData = join(step.altstack, <<"\n">>)])
             ELSE Returned([s2 EXCEPT
                     !.currentStepStatus = "",
                     !.debugWord = plusOne(newDebugWord),
                     !.pc = newPc,
                     !.stackData = join(step.stack, <<"\n">>),
                     !.altStackData = join(step.altstack, <<"\n">>)]))

updateDebugStep(c, s, newDebugStep, pcWordMap, trace, status) ==
    IF isSet(c.error) THEN Returned(normalizeData(c, s))
    ELSE showStep(c, normalizeData(c, s), newDebugStep, pcWordMap, trace, status)

\* the effect with a reset test on the text instead of on its tokens
syncEffect_rawCompare(s) ==
    With(normalizeData(Closure(s), s), LAMBDA s1 :
    IF join(s.previousTerms, <<" ">>) # s.debAsm
    THEN [s1 EXCEPT !.debugWord = Num(0), !.trace = TraceFalse,
                    !.stackData = <<>>, !.altStackData = <<>>,
                    !.previousTerms = termsOf(s.debAsm),
                    !.pcWordMap = EmptyObject, !.pc = 0]
    ELSE s1)

\* the effect without its reset block
syncEffect_noReset(s) == normalizeData(Closure(s), s)

\* the effect on [activeTab, debAsm, debHex], run by the render of state s
syncEffect(s) ==
    With(normalizeData(Closure(s), s), LAMBDA s1 :
    IF join(s.previousTerms, <<" ">>) # join(termsOf(s.debAsm), <<" ">>)
    THEN [s1 EXCEPT !.debugWord = Num(0), !.trace = TraceFalse,
                    !.stackData = <<>>, !.altStackData = <<>>,
                    !.previousTerms = termsOf(s.debAsm),
                    !.pcWordMap = EmptyObject, !.pc = 0]
    ELSE s1)

\* the render after state old became new: the effect runs when one of its
\* dependencies changed
commit(old, new) ==
    With(new, LAMBDA n :
    IF <<n.activeTab, n.debAsm, n.debHex>> # <<old.activeTab, old.debAsm, old.debHex>>
    THEN syncEffect(n)
    ELSE n)

\* -------------------- codec workbench --------------------
\* input: what a conversion is applied to; conv: the results of the conversions
\* applied to it so far, alternately bytesToAsm and asmToBytes (or the one
\* pushPrefix); maps: the offset tables computed for an ASM input.
\* app, inflight: the App component and its pending run requests; sent, edits:
\* the numbers of run requests sent and of editor changes made so far (below).
\* editor: the breakpoint state of the SimpleEditor component (below).
VARIABLES input, conv, maps, app, inflight, sent, edits, editor

vars == <<input, conv, maps, app, inflight, sent, edits, editor>>

\* ---- bounds of the codec inputs ----
\* pieces concatenated into one ASM input
MaxPieces == 3

\* chunks concatenated into one bytecode input
MaxChunks == 3

\* conversions applied in a row to one input
MaxConversions == 4

\* every payload length 0..MaxSmallLength is given to pushPrefix
MaxSmallLength == 300

\* ---- sample data ----
\* n payload bytes 0xee, and their 2n hex digits
Payload(n) == AsSeq([i \in 1..n |-> 238])

PayloadHex(n) == AsSeq([i \in 1..(2 * n) |-> IF i % 2 = 1 THEN "e" ELSE "E"])

Bracketed(n) == <<"<">> \o PayloadHex(n) \o <<">">>

T_OP_DUP == <<"O","P","_","D","U","P">>

T_OP_FALSE == <<"O","P","_","F","A","L","S","E">>

T_OP_0 == <<"O","P","_","0">>

T_OP_PUSHDATA1 == <<"O","P","_","P","U","S","H","D","A","T","A","1">>

AsmPieces ==
    { <<" ">>, <<"\n">>, T_OP_DUP, T_OP_FALSE, T_OP_PUSHDATA1,
      <<"1","6">>, <<"-","1">>, <<"a","A">>, Bracketed(1), <<"<","a",">">>,
      Bracketed(76) }

\* longer inputs: one payload per size tier, with a token after it
BigAsmInputs ==
    { Bracketed(n) \o <<" ">> \o T_OP_DUP : n \in {75, 255, 256, 520, 521, 65535, 65536} }
    \cup { <<"\n">> \o T_OP_DUP \o <<"\n">> \o Bracketed(2),
           T_OP_DUP \o <<"\n","\n">> \o <<"a","b">> \o <<" ">> \o Bracketed(2) \o <<" ","\n">> \o <<"0">> }

RECURSIVE Concats(_, _)
\* the concatenations of at most n elements of S
Concats(S, n) ==
    IF n = 0 THEN {<<>>}
    ELSE LET shorter == Concats(S, n - 1)
         IN  shorter \cup {c \o p : c \in shorter, p \in S}

\* texts with a bracketed token whose content is empty, not hex, or odd
BracketAsmInputs ==
    { <<"<",">">>,
      <<"<","e","z",">">>,
      T_OP_DUP \o <<" ">> \o <<"<","e","E","e",">">> \o <<" ">> \o T_OP_DUP,
      Bracketed(2) \o <<"\n">> \o <<"<","z",">">>,
      T_OP_DUP \o <<" ">> \o <<"<",">">> }

\* the decimal numeral of n in -1..16
Decimal(n) ==
    IF n = -1 THEN <<"-","1">>
    ELSE IF n < 10 THEN <<LowerHex[n + 1]>>
    ELSE <<LowerHex[(n \div 10) + 1], LowerHex[(n % 10) + 1]>>

\* every small integer as a text of its own, and texts of several
SmallIntAsmInputs ==
    { Decimal(n) : n \in -1..16 }
    \cup { <<"-","1"," ","0"," ","1"," ","1","6">>,
           <<"9","\n","1","0"," "," ","0","\n","-","1">> }

\* the pay-to-public-key-hash example of the specification
P2PKH_Hash ==
    <<"0","0","1","1","2","2","3","3","4","4","5","5","6","6","7","7","8","8","9","9","a","a","b","b","c","c","d","d","e","e","f","f","0","0","1","1","2","2","3","3">>

T_P2PKH ==
    T_OP_DUP \o <<" ">> \o <<"O","P","_","H","A","S","H","1","6","0">> \o <<" ">>
    \o <<"<">> \o P2PKH_Hash \o <<">">> \o <<" ">>
    \o <<"O","P","_","E","Q","U","A","L","V","E","R","I","F","Y">> \o <<" ">> \o <<"O","P","_","C","H","E","C","K","S","I","G">>

\* n payload bytes written in lowercase digits, in brackets
LowerBracketed(n) ==
    <<"<">> \o AsSeq([i \in 1..(2 * n) |-> LowerHex[((7 * i) % 16) + 1]]) \o <<">">>

\* the mnemonics that VAL2NAME holds for the bytes outside the push range
\* and the small-integer range
CanonicalMnemonics ==
    { VAL2NAME_get(OPC[k][2]) :
        k \in { j \in 1..Len(OPC) : OPC[j][2] = 80 \/ OPC[j][2] > 96 } }

\* texts of small integers, lowercase bracketed literals and such mnemonics
CanonicalAsmInputs ==
    { T_P2PKH,
      <<"-","1","\n">> \o LowerBracketed(1) \o <<" ">>
          \o <<"O","P","_","R","E","S","E","R","V","E","D">> \o <<" "," ","0"," ","1","6">> }
    \cup CanonicalMnemonics
    \cup { LowerBracketed(n) \o <<"\n","1","6">> : n \in {1, 75, 76, 256, 65536} }

AsmInputs ==
    Concats(AsmPieces, MaxPieces) \cup BigAsmInputs \cup BracketAsmInputs
    \cup SmallIntAsmInputs \cup CanonicalAsmInputs \cup OpcNames

\* a minimal push of n bytes, written out tier by tier
MinimalPush(n) ==
    (IF n <= 75 THEN <<n>>
     ELSE IF n <= 255 THEN <<76, n>>
     ELSE IF n <= 65535 THEN <<77, n % 256, n \div 256>>
     ELSE <<78, n % 256, (n \div 256) % 256, (n \div 65536) % 256, n \div 16777216>>)
    \o Payload(n)

ByteChunks ==
    { <<b>> : b \in {0, 1, 2, 76, 77, 78, 79, 81, 96, 98, 118, 128} }
    \cup { MinimalPush(76) }

BigByteInputs ==
    { <<118>> \o MinimalPush(n) \o <<172>> : n \in {75, 255, 256, 65535, 65536} }
    \cup { <<76, 5, 1, 2>>, <<77, 76, 0>> \o Payload(76), <<78, 0, 1, 0, 0>> \o Payload(256) }

HexInputs == Concats(ByteChunks, MaxChunks) \cup BigByteInputs

LenInputs ==
    0..MaxSmallLength
    \cup {65535, 65536, 65537, 16777215, 16777216, 16777217, 536870911, 536870912}

SampleError == [msg |-> "Unrecognized token: ", tok |-> <<"z">>]

\* breakpoint lists as the editor reports them: line numbers, ascending,
\* without duplicates
BreakpointLists == { <<>>, <<2>>, <<1, 3>>, <<1, 2, 3, 4>> }

NotMapped ==
    [done |-> FALSE, error |-> NoError,
     lineArray |-> [defined |-> FALSE, val |-> <<>>], wordMap |-> EmptyObject,
     breakpoints |-> <<>>, bytePositions |-> Ok(<<>>)]

\* the codec functions are applied to drawn inputs; the component is not mounted
NotMounted == <<>>

\* no SimpleEditor is mounted
NoEditor == <<>>

InitCodec ==
    /\ input \in [kind : {"hex"}, val : HexInputs]
                 \cup [kind : {"asm"}, val : AsmInputs]
                 \cup [kind : {"len"}, val : LenInputs]
    /\ conv = <<>>
    /\ maps = NotMapped
    /\ app = NotMounted
    /\ inflight = <<>>
    /\ sent = 0
    /\ edits = 0
    /\ editor = NoEditor

\* the value the next conversion is applied to
Last == IF conv = <<>> THEN Ok(input.val) ELSE conv[Len(conv)]

\* the next conversion takes text (asmToBytes) or bytes (bytesToAsm)
NextTakesText == (input.kind = "asm") = (Len(conv) % 2 = 0)

Assemble ==
    /\ input.kind \in {"hex", "asm"}
    /\ ~maps.done
    /\ Len(conv) < MaxConversions
    /\ Last.ok
    /\ NextTakesText
    /\ conv' = Append(conv, asmToBytes(Last.val))
    /\ UNCHANGED <<input, maps, app, inflight, sent, edits, editor>>

Disassemble ==
    /\ input.kind \in {"hex", "asm"}
    /\ ~maps.done
    /\ Len(conv) < MaxConversions
    /\ Last.ok
    /\ ~NextTakesText
    /\ conv' = Append(conv, bytesToAsm(Last.val))
    /\ UNCHANGED <<input, maps, app, inflight, sent, edits, editor>>

Prefix ==
    /\ input.kind = "len"
    /\ conv = <<>>
    /\ conv' = <<Ok(pushPrefix(input.val))>>
    /\ UNCHANGED <<input, maps, app, inflight, sent, edits, editor>>

\* the two offset tables of an ASM source and the translation of a breakpoint
\* list, with the error state either way; a drawn text is either converted or
\* mapped
MapOffsets ==
    /\ input.kind = "asm"
    /\ conv = <<>>
    /\ ~maps.done
    /\ \E error \in {NoError, SampleError}, breakpoints \in BreakpointLists :
          maps' = [done |-> TRUE,
                   error |-> error,
                   lineArray |-> computeLineArray(input.val, error),
                   wordMap |-> computePcWordMap(input.val),
                   breakpoints |-> breakpoints,
                   bytePositions |->
                       computeBreakpointBytePositions(
                           computeLineArray(input.val, error), breakpoints)]
    /\ UNCHANGED <<input, conv, app, inflight, sent, edits, editor>>

NextCodec == Assemble \/ Disassemble \/ Prefix \/ MapOffsets

SpecCodec == InitCodec /\ [][NextCodec]_vars

\* -------------------- App: the component as a state machine --------------------
\* ---- bounds of the App inputs ----
\* steps in a trace the engine reports
MaxTraceLen == 2

\* run requests sent in one behaviour
MaxRuns == 2

\* changes made in the editors in one behaviour
MaxEdits == 2

\* inputs in one behaviour: an editor change counts once, a run request
\* (which brings a response) twice
MaxInputs == 4

\* ---- sample data ----
T_1 == <<"1">>

\* the hex parameter of the URL the page is opened with
UrlHexes == { <<"7","6">> }

\* texts typed into the ASM editor and into the HEX editor
AsmTexts ==
    { T_OP_DUP, T_OP_DUP \o <<"\n">> \o T_1, <<"z">>,
      T_OP_PUSHDATA1 \o <<" ">> \o T_OP_DUP, T_OP_DUP \o <<" ">> }

HexTexts == { <<"7","6">>, <<"7","6","5","1">> }

Tabs == {"ASM", "HEX", "PYTHON"}

\* the steps of the run the engine reports: the last one names a pc that the
\* pc map of the sample texts lacks
EngineRun ==
    << [pc |-> 0, stack |-> <<>>, altstack |-> <<>>],
       [pc |-> 1, stack |-> << <<"7","6">>, <<"0","1">> >>, altstack |-> << <<"0","2">> >>],
       [pc |-> 9, stack |-> << <<"0","1">> >>, altstack |-> <<>>] >>

\* the traces the engine reports: the run cut after 0..MaxTraceLen steps, or
\* no trace at all, as the bundled server answers
EngineTraces ==
    {TraceUndefined}
    \cup {TraceArray(SubSeq(EngineRun, 1, n)) : n \in 0..Min(MaxTraceLen, Len(EngineRun))}

\* response bodies: trace, status and error detail
EngineData ==
    [trace : EngineTraces, status : {"success"}, error : {""}]
    \cup [trace : EngineTraces, status : {"error"}, error : {"script failed"}]

\* loadURLParams for the URL parameter hex: the result, with the fields the
\* try block assigned before a throw
loadURLParams(urlHex) ==
    With(cleanHex(trim(urlHex)), LAMBDA h :
    With(hexToAsm(h), LAMBDA a :
    IF ~a.ok
    THEN [hex |-> h, asm |-> <<>>, python |-> <<>>, cpp |-> <<>>,
          info |-> NoInfo, error |-> message(a)]
    ELSE With(asmToPy(a.val), LAMBDA py :
    IF ~py.ok
    THEN [hex |-> h, asm |-> a.val, python |-> <<>>, cpp |-> <<>>,
          info |-> NoInfo, error |-> message(py)]
    ELSE With(hexToCpp(h), LAMBDA cp :
    IF ~cp.ok
    THEN [hex |-> h, asm |-> a.val, python |-> py.val, cpp |-> <<>>,
          info |-> NoInfo, error |-> message(cp)]
    ELSE [hex |-> h, asm |-> a.val, python |-> py.val, cpp |-> cp.val,
          info |-> bytesInfo(cleanHex(h)), error |-> NoError]))))

\* the useState initial values of App
initialState(params) ==
    [activeTab |-> "ASM", asm |-> params.asm, hex |-> params.hex,
     python |-> params.python, cpp |-> params.cpp,
     error |-> params.error, info |-> params.info,
     stackData |-> <<>>, altStackData |-> <<>>, debugWord |-> Undefined,
     trace |-> TraceFalse, previousTerms |-> <<>>, status |-> StatusFalse,
     currentStepStatus |-> "", executionError |-> "", pcWordMap |-> EmptyObject,
     pc |-> 0, currentDebugStep |-> 0,
     debAsm |-> params.asm, debHex |-> params.hex]

NoInput == [kind |-> "none", val |-> <<>>]

\* the component after its first render and the effect of that render
InitApp ==
    /\ \E urlHex \in UrlHexes : app = syncEffect(initialState(loadURLParams(urlHex)))
    /\ inflight = <<>>
    /\ sent = 0
    /\ edits = 0
    /\ input = NoInput
    /\ conv = <<>>
    /\ maps = NotMapped
    /\ editor = NoEditor

\* onChange of the ASM editor
EditAsm ==
    /\ app.activeTab = "ASM"
    /\ edits < MaxEdits /\ edits + 1 + 2 * sent <= MaxInputs
    /\ \E text \in AsmTexts \ {app.asm} : app' = commit(app, [app EXCEPT !.asm = text])
    /\ edits' = edits + 1
    /\ UNCHANGED <<input, conv, maps, inflight, sent, editor>>

\* onChange of the HEX editor
EditHex ==
    /\ app.activeTab = "HEX"
    /\ edits < MaxEdits /\ edits + 1 + 2 * sent <= MaxInputs
    /\ \E text \in HexTexts \ {app.hex} : app' = commit(app, [app EXCEPT !.hex = text])
    /\ edits' = edits + 1
    /\ UNCHANGED <<input, conv, maps, inflight, sent, editor>>

\* the timer of useDebounced(asm) fires
DebounceAsm ==
    /\ app.debAsm # app.asm
    /\ app' = commit(app, [app EXCEPT !.debAsm = app.asm])
    /\ UNCHANGED <<input, conv, maps, inflight, sent, edits, editor>>

\* the timer of useDebounced(hex) fires
DebounceHex ==
    /\ app.debHex # app.hex
    /\ app' = commit(app, [app EXCEPT !.debHex = app.hex])
    /\ UNCHANGED <<input, conv, maps, inflight, sent, edits, editor>>

\* onClick of a tab button
SetTab ==
    /\ ~isSet(app.error)
    /\ \E tab \in Tabs \ {app.activeTab} :
          app' = commit(app, [app EXCEPT !.activeTab = tab])
    /\ UNCHANGED <<input, conv, maps, inflight, sent, edits, editor>>

\* handleServerRequest up to its await: the request leaves with the closure
\* of the render
sendRequest(is_last) ==
    LET c  == Closure(app)
        s1 == normalizeData(c, app)
    IN  IF isSet(c.error)
        THEN app' = commit(app, s1) /\ UNCHANGED <<inflight, sent>>
        ELSE /\ sent < MaxRuns /\ edits + 2 * (sent + 1) <= MaxInputs
             /\ app' = commit(app, [s1 EXCEPT !.previousTerms = termsOf(c.debAsm)])
             /\ inflight' = Append(inflight, [is_last |-> is_last, c |-> c])
             /\ sent' = sent + 1

\* "Run script on server"
RunOnServer ==
    /\ sendRequest(TRUE)
    /\ UNCHANGED <<input, conv, maps, edits, editor>>

\* debugForward without the clamp at trace.length
debugForward_noClamp ==
    IF noTrace(app.trace) THEN sendRequest(FALSE)
    ELSE LET r == updateDebugStep(Closure(app), app, app.currentDebugStep + 1,
                                  app.pcWordMap, app.trace, app.status)
         IN  app' = commit(app, r.state) /\ UNCHANGED <<inflight, sent>>

debugForward ==
    IF noTrace(app.trace) THEN sendRequest(FALSE)
    ELSE LET length       == Len(app.trace.steps)
             newDebugStep == IF app.currentDebugStep >= length THEN length
                             ELSE app.currentDebugStep + 1
             r == updateDebugStep(Closure(app), app, newDebugStep,
                                  app.pcWordMap, app.trace, app.status)
         IN  app' = commit(app, r.state) /\ UNCHANGED <<inflight, sent>>

\* debugBackward without the floor at 1
debugBackward_noFloor ==
    IF noTrace(app.trace) THEN sendRequest(FALSE)
    ELSE LET r == updateDebugStep(Closure(app), app, app.currentDebugStep - 1,
                                  app.pcWordMap, app.trace, app.status)
         IN  app' = commit(app, r.state) /\ UNCHANGED <<inflight, sent>>

debugBackward ==
    IF noTrace(app.trace) THEN sendRequest(FALSE)
    ELSE LET newDebugStep == IF app.currentDebugStep > 1 THEN app.currentDebugStep - 1
                             ELSE 1
             r == updateDebugStep(Closure(app), app, newDebugStep,
                                  app.pcWordMap, app.trace, app.status)
         IN  app' = commit(app, r.state) /\ UNCHANGED <<inflight, sent>>

\* the "Execute one step" button
DebugForward ==
    /\ debugForward
    /\ UNCHANGED <<input, conv, maps, edits, editor>>

\* the "Start again" button
DebugBackward ==
    /\ debugBackward
    /\ UNCHANGED <<input, conv, maps, edits, editor>>

\* inflight without its k-th request
Without(k) == SubSeq(inflight, 1, k - 1) \o SubSeq(inflight, k + 1, Len(inflight))

\* fetch rejects: the catch sets info, response is undefined
FetchFails ==
    /\ \E k \in 1..Len(inflight) :
          /\ inflight' = Without(k)
          /\ app' = commit(app, [app EXCEPT !.info = ConnectionInfo])
    /\ UNCHANGED <<input, conv, maps, sent, edits, editor>>

\* !response.ok
ResponseNotOk ==
    /\ \E k \in 1..Len(inflight) : inflight' = Without(k)
    /\ UNCHANGED <<input, conv, maps, app, sent, edits, editor>>

\* handleServerRequest after its awaits, for the body data of an ok response
applyResponse(req, data) ==
    With(computePcWordMap(req.c.asm), LAMBDA wordMap :
    With([app EXCEPT !.trace = data.trace,
                     !.status = data.status,
                     !.executionError = IF data.status = "error" THEN data.error ELSE "",
                     !.pcWordMap = wordMap],
    LAMBDA s0 :
    With(IF req.is_last /\ ~noTrace(data.trace)
         THEN updateDebugStep(req.c, s0, Len(data.trace.steps), wordMap,
                              data.trace, data.status)
         ELSE updateDebugStep(req.c, s0, 1, wordMap, data.trace, data.status),
    LAMBDA r :
    IF r.threw THEN r.state
    ELSE [r.state EXCEPT !.info = IF data.status = "success" THEN SuccessInfo
                                  ELSE IF data.status = "error"
                                  THEN WarningInfo(data.error)
                                  ELSE NoInfo])))

ResponseOk ==
    /\ \E k \in 1..Len(inflight), data \in EngineData :
          /\ inflight' = Without(k)
          /\ app' = commit(app, applyResponse(inflight[k], data))
    /\ UNCHANGED <<input, conv, maps, sent, edits, editor>>

NextApp ==
    \/ EditAsm
    \/ EditHex
    \/ DebounceAsm
    \/ DebounceHex
    \/ SetTab
    \/ RunOnServer
    \/ DebugForward
    \/ DebugBackward
    \/ FetchFails
    \/ ResponseNotOk
    \/ ResponseOk

SpecApp == InitApp /\ [][NextApp]_vars

\* the timers fire and every request is answered
FairSpecApp ==
    /\ SpecApp
    /\ WF_vars(DebounceAsm)
    /\ WF_vars(DebounceHex)
    /\ WF_vars(FetchFails \/ ResponseNotOk \/ ResponseOk)

\* -------------------- SimpleEditor: breakpoints --------------------
\* The editor record: lineCount, the lines of the text; decorations, the
\* startLineNumber of each id in breakpointsDecorationsRef.current, in the
\* order of the ids; previousBreakpoints, the variable of that name;
\* breakpoints, the list last passed to onBreakpointsChange; reports, the
\* number of calls of onBreakpointsChange.
\* ---- bounds of the editor inputs ----
\* lines of the text in the editor
MaxLines == 3

\* gutter clicks and text changes in one behaviour
MaxClicks == 4

RECURSIVE uniq(_)
\* Array.from(new Set(array)): the first occurrence of each value, in order
uniq(array) ==
    IF array = <<>> THEN <<>>
    ELSE With(uniq(SubSeq(array, 1, Len(array) - 1)), LAMBDA seen :
         IF \E i \in 1..Len(seen) : seen[i] = array[Len(array)] THEN seen
         ELSE Append(seen, array[Len(array)]))

RECURSIVE sortAscending(_)
\* array.sort((a, b) => a - b)
sortAscending(array) ==
    IF array = <<>> THEN <<>>
    ELSE With(sortAscending(Tail(array)), LAMBDA rest :
         SelectSeq(rest, LAMBDA x : x < Head(array))
         \o <<Head(array)>>
         \o SelectSeq(rest, LAMBDA x : x >= Head(array)))

\* notifyParent that reports the decoration lines as they stand in the ref
notifyParent_asStored(ed) ==
    With(ed.decorations, LAMBDA lines :
    IF lines # ed.previousBreakpoints
    THEN [ed EXCEPT !.breakpoints = lines, !.reports = @ + 1,
                    !.previousBreakpoints = lines]
    ELSE ed)

\* notifyParent for the editor record ed
notifyParent(ed) ==
    With(sortAscending(uniq(ed.decorations)), LAMBDA lines :
    IF lines # ed.previousBreakpoints
    THEN [ed EXCEPT !.breakpoints = lines, !.reports = @ + 1,
                    !.previousBreakpoints = lines]
    ELSE ed)

\* the onMouseDown listener for a click on the glyph margin of line
onMouseDown(ed, line) ==
    With(ed.decorations, LAMBDA currentDescriptors :
    With(IF \E i \in 1..Len(currentDescriptors) : currentDescriptors[i] = line
         THEN SelectSeq(currentDescriptors, LAMBDA d : d # line)
         ELSE Append(currentDescriptors, line),
    LAMBDA newDescriptors :
    notifyParent([ed EXCEPT !.decorations = newDescriptors])))

\* the onDidChangeContent listener after line k was deleted with its line
\* break: the decorations below it move up by one line
onDidChangeContent(ed, k) ==
    notifyParent([ed EXCEPT
        !.lineCount = @ - 1,
        !.decorations = AsSeq([i \in 1..Len(ed.decorations) |->
                                  IF ed.decorations[i] > k THEN ed.decorations[i] - 1
                                  ELSE ed.decorations[i]])])

\* handleEditorDidMount for the breakpoints prop
handleEditorDidMount(breakpoints) ==
    notifyParent([lineCount |-> MaxLines, decorations |-> breakpoints,
                  previousBreakpoints |-> <<>>, breakpoints |-> breakpoints,
                  reports |-> 0])

\* the lists the parent holds when the editor is mounted
BreakpointProps == { <<>>, <<2>>, <<1, 3>> }

ClickEvent(line) == [kind |-> "click", val |-> line]

DeleteEvent(k) == [kind |-> "delete", val |-> k]

\* no click and no text change yet
NoEvent == [kind |-> "none", val |-> 0]

InitEditor ==
    /\ \E breakpoints \in BreakpointProps : editor = handleEditorDidMount(breakpoints)
    /\ input = NoEvent
    /\ conv = <<>>
    /\ maps = NotMapped
    /\ app = NotMounted
    /\ inflight = <<>>
    /\ sent = 0
    /\ edits = 0

\* a click on the glyph margin of a line; input records the event
GutterClick ==
    /\ edits < MaxClicks
    /\ \E line \in 1..editor.lineCount :
          /\ editor' = onMouseDown(editor, line)
          /\ input' = ClickEvent(line)
    /\ edits' = edits + 1
    /\ UNCHANGED <<conv, maps, app, inflight, sent>>

\* a line that has a line below it is deleted from the text
DeleteLine ==
    /\ edits < MaxClicks
    /\ \E k \in 1..(editor.lineCount - 1) :
          /\ editor' = onDidChangeContent(editor, k)
          /\ input' = DeleteEvent(k)
    /\ edits' = edits + 1
    /\ UNCHANGED <<conv, maps, app, inflight, sent>>

NextEditor == GutterClick \/ DeleteLine

SpecEditor == InitEditor /\ [][NextEditor]_vars

\* ---- properties of the codec ----
\* the bytes were disassembled and the text then assembled
RoundTripped == input.kind = "hex" /\ Len(conv) >= 2 /\ conv[1].ok

RECURSIVE MinimalFrom(_, _)
\* from cursor i on, bytecode B parses and every push in it has the minimal
\* prefix form of its payload length (section 3 of the specification)
MinimalFrom(B, i) ==
    IF i >= Len(B) THEN TRUE
    ELSE LET op == B[i + 1]
             at(k) == IF i + k < Len(B) THEN B[i + k + 1] ELSE -1
             d == decodeAt(B, i)
         IN  /\ op = 76 => at(1) >= 76
             /\ op = 77 => at(1) >= 0 /\ at(2) >= 1
             /\ op = 78 => at(1) >= 0 /\ at(2) >= 0 /\ at(3) >= 0 /\ at(4) >= 0
                           /\ at(3) + at(4) >= 1
             /\ d.ok
             /\ MinimalFrom(B, d.val.next)

MinimallyEncoded(B) == MinimalFrom(B, 0)

Normalized == input.kind = "asm" /\ Len(conv) >= 1 /\ conv[1].ok

\* ASM text x has a token naming one of the raw push-prefix opcodes
NamesPushPrefix(x) ==
    \E k \in 1..Len(asmTokens(x)) :
        asmTokens(x)[k] \in { <<"O","P","_","P","U","S","H","D","A","T","A",n>> :
                                  n \in {"1", "2", "4"} }

\* every conversion made after the first succeeded, and the second
\* normalization pass, once made, gave the text of the first
PassesAgree ==
    /\ \A k \in 2..Len(conv) : conv[k].ok
    /\ Len(conv) >= 4 => conv[4].val = conv[2].val

\* C2 as stated: for every ASM text x that assembles, disassemble(assemble(x))
\* is defined, can be assembled, and equals
\* disassemble(assemble(disassemble(assemble(x)))).
C2_IdempotentEveryText ==
    Normalized => PassesAgree

\* C2: for every ASM text x that assembles and names none of OP_PUSHDATA1,
\* OP_PUSHDATA2, OP_PUSHDATA4 as a token, disassemble(assemble(x)) is defined,
\* can be assembled, and equals disassemble(assemble(disassemble(assemble(x)))).
C2_IdempotentWithoutRawPrefix ==
    (Normalized /\ ~NamesPushPrefix(input.val)) => PassesAgree

\* an alias and a PUSHDATA1 push went through both passes
C2_Witness ==
    /\ Normalized
    /\ input.val = T_OP_FALSE \o <<" ">> \o Bracketed(76)
    /\ Len(conv) = 4
    /\ conv[4].ok
    /\ conv[4].val # input.val

\* the little-endian value of the length bytes after the first byte of prefix p
LittleEndian(p) ==
    IF Len(p) = 2 THEN p[2]
    ELSE IF Len(p) = 3 THEN p[2] + 256 * p[3]
    ELSE p[2] + 256 * p[3] + 65536 * p[4] + 16777216 * p[5]

\* C3: for every payload length L, pushPrefix(L) is the single byte L when
\* L <= 75, PUSHDATA1 and a 1-byte length when 76 <= L <= 255, PUSHDATA2 and a
\* 2-byte length when 256 <= L <= 65535, PUSHDATA4 and a 4-byte length when
\* L > 65535, and the length bytes decode little-endian to L.
C3_MinimalPushEncoding ==
    (input.kind = "len" /\ conv # <<>>) =>
        LET L == input.val
            p == conv[1].val
        IN  /\ \A k \in 1..Len(p) : p[k] \in 0..255
            /\ L <= 75 => p = <<L>>
            /\ (76 <= L /\ L <= 255) => Len(p) = 2 /\ p[1] = 76 /\ LittleEndian(p) = L
            /\ (256 <= L /\ L <= 65535) => Len(p) = 3 /\ p[1] = 77 /\ LittleEndian(p) = L
            /\ L > 65535 => Len(p) = 5 /\ p[1] = 78 /\ LittleEndian(p) = L

\* the prefix of the first PUSHDATA4 length was computed
C3_Witness ==
    input.kind = "len" /\ input.val = 65536 /\ conv = <<Ok(<<78, 0, 0, 1, 0>>)>>

RECURSIVE FirstTruncation(_, _)
\* the truncation error of the first push of bytecode B, from cursor i on, that
\* has fewer bytes left than its length field and declared payload need; ""
\* when no push is truncated before the end or before an unknown opcode
FirstTruncation(B, i) ==
    IF i >= Len(B) THEN ""
    ELSE LET op == B[i + 1]
             left == Len(B) - (i + 1)
             at(k) == B[i + 1 + k]
         IN  IF op >= 1 /\ op <= 75
             THEN IF left < op THEN "PUSHDATA truncated"
                  ELSE FirstTruncation(B, i + 1 + op)
             ELSE IF op = 76
             THEN IF left < 1 \/ left - 1 < at(1) THEN "PUSHDATA1 truncated"
                  ELSE FirstTruncation(B, i + 2 + at(1))
             ELSE IF op = 77
             THEN IF left < 2 \/ left - 2 < at(1) + 256 * at(2) THEN "PUSHDATA2 truncated"
                  ELSE FirstTruncation(B, i + 3 + at(1) + 256 * at(2))
             ELSE IF op = 78
             THEN IF \/ left < 4
                     \/ at(4) > 0
                     \/ left - 4 < at(1) + 256 * at(2) + 65536 * at(3)
                  THEN "PUSHDATA4 truncated"
                  ELSE FirstTruncation(B, i + 5 + at(1) + 256 * at(2) + 65536 * at(3))
             ELSE IF decodeAt(B, i).ok THEN FirstTruncation(B, i + 1)
             ELSE ""

\* C4: for every byte sequence in which a push has fewer bytes remaining than
\* its length field plus its declared payload require (a missing or incomplete
\* length field included), disassembly fails with the truncation error of that
\* prefix form and returns no token text.
C4_TruncationDetected ==
    (input.kind = "hex" /\ Len(conv) >= 1 /\ FirstTruncation(input.val, 0) # "")
        => /\ ~conv[1].ok
           /\ conv[1].msg = FirstTruncation(input.val, 0)
           /\ conv[1].val = <<>>

\* the token text OP_FALSE was assembled and the result disassembled
AliasCollapsed == input.kind = "asm" /\ input.val = T_OP_FALSE /\ Len(conv) >= 2

\* C5 as stated: assembling the token OP_FALSE and disassembling the result
\* yields the token OP_0.
C5_AliasCollapseToMnemonic ==
    AliasCollapsed => conv[2] = Ok(T_OP_0)

\* C5: assembling the token OP_FALSE and disassembling the result yields the
\* decimal token 0, neither OP_FALSE nor the mnemonic OP_0.
C5_AliasCollapseToZero ==
    AliasCollapsed => conv[2] = Ok(<<"0">>)

\* OP_FALSE was assembled to the byte 0x00 and that byte disassembled
C5_Witness ==
    AliasCollapsed /\ conv[1] = Ok(<<0>>) /\ conv[2].ok

\* ---- properties of the offset mapping ----
\* the offset tables of an ASM text were computed
Mapped == input.kind = "asm" /\ maps.done

\* the number of bytes the Assembler emits for the first i tokens of text x
EmittedBefore(x, i) ==
    Len(asmToBytes(join(SubSeq(asmTokens(x), 1, i), <<" ">>)).val)

\* the pc map records token index idx at byte offset o
Records(wordMap, o, idx) ==
    Twice(o) \in DOMAIN wordMap /\ wordMap[Twice(o)] = idx

\* C6: for every ASM source that assembles, the byte offset the pc map records
\* for token i equals the number of bytes the Assembler emits for tokens
\* 0..i-1, and the sentinel entry sits at the total length of the assembled
\* bytecode and maps to token_count - 1.
C6_AssemblerLengthAccounting ==
    (Mapped /\ asmToBytes(input.val).ok) =>
        LET x == input.val
            n == Len(asmTokens(x))
        IN  /\ \A i \in 0..(n - 1) : Records(maps.wordMap, EmittedBefore(x, i), i)
            /\ Records(maps.wordMap, EmittedBefore(x, n), n - 1)

\* the index, in the flattened token stream of text x, of the first token of
\* source line k
FirstTokenIndex(x, k) ==
    Len(Tokens(join(SubSeq(splitLines(x), 1, k - 1), <<"\n">>)))

\* the pc map has an offset for token index idx
HasOffsetOf(wordMap, idx) == \E o \in DOMAIN wordMap : wordMap[o] = idx

\* the smallest (doubled) offset of the pc map whose token index is idx
SmallestOffsetOf(wordMap, idx) ==
    CHOOSE o \in DOMAIN wordMap :
        wordMap[o] = idx /\ \A q \in DOMAIN wordMap : wordMap[q] = idx => o <= q

\* C7: for any source text and any source line k that holds a token, the byte
\* offset computeLineArray records for line k equals the smallest offset in
\* computePcWordMap's map whose token index is the index of line k's first
\* token.
C7_LineTableMatchesPcMap ==
    (Mapped /\ ~isSet(maps.error)) =>
        \A k \in 1..Len(splitLines(input.val)) :
            Tokens(splitLines(input.val)[k]) # <<>> =>
                LET idx == FirstTokenIndex(input.val, k)
                IN  /\ maps.lineArray.defined
                    /\ k <= Len(maps.lineArray.val)
                    /\ HasOffsetOf(maps.wordMap, idx)
                    /\ maps.lineArray.val[k] = SmallestOffsetOf(maps.wordMap, idx)

\* the byte offset in the assembled bytecode at which the first token of
\* source line k of text x begins
LineStart(x, k) == EmittedBefore(x, FirstTokenIndex(x, k))

\* source line k of text x exists and holds a token
HoldsToken(x, k) ==
    k \in 1..Len(splitLines(x)) /\ Tokens(splitLines(x)[k]) # <<>>

\* C21: for every source text (also one that starts with or contains blank
\* lines) and every breakpoint on a source line k that holds a token, the
\* breakpoint translation returns, at the breakpoint's place in the list, the
\* byte offset in the compiled bytecode at which line k's first token begins.
C21_BreakpointTranslation ==
    (Mapped /\ ~isSet(maps.error) /\ asmToBytes(input.val).ok) =>
        /\ maps.bytePositions.ok
        /\ Len(maps.bytePositions.val) = Len(maps.breakpoints)
        /\ \A j \in 1..Len(maps.breakpoints) :
              HoldsToken(input.val, maps.breakpoints[j]) =>
                  /\ maps.bytePositions.val[j].defined
                  /\ maps.bytePositions.val[j].val
                        = Twice(LineStart(input.val, maps.breakpoints[j]))

\* ---- properties of the debug session ----
\* a trace is present
TraceLoaded == app.trace.kind = "array"

\* trace.length, taken as 0 when no trace is present
TraceLength == IF app.trace.kind = "array" THEN Len(app.trace.steps) ELSE 0

\* the Idle session: trace absent, stack and alt-stack views empty, pc 0,
\* highlight cleared, pc map empty
IdleOf(s) ==
    /\ s.trace = TraceFalse
    /\ s.stackData = <<>>
    /\ s.altStackData = <<>>
    /\ s.pc = 0
    /\ s.debugWord = Num(0)
    /\ s.pcWordMap = EmptyObject

Idle == IdleOf(app)

\* the tokens of a text, as the reset effect compares them
TokenText(asm) == join(termsOf(asm), <<" ">>)

\* the source differs in a token from the text the session was started for
TokenEdited == TokenText(app.asm) # join(app.previousTerms, <<" ">>)

\* C8 as stated: once a trace is loaded, any edit that changes a token of the
\* source forces the Debug Session back to Idle (also when the edit is
\* afterwards reverted).
C8_EveryTokenEditResets ==
    (TraceLoaded /\ TokenEdited) ~> Idle

\* C8: every edit that changes a token of the source and is still in place
\* when the debounce period ends (a later revert to the earlier text
\* included) puts the Debug Session in Idle: trace absent, stack and alt-stack
\* views empty, pc 0, highlight cleared, pc map empty.
C8_DebouncedTokenEditResets ==
    [][TokenText(app'.debAsm) # TokenText(app.debAsm) => IdleOf(app')]_vars

\* a two-step trace was loaded and stepped to its end, a token was added and
\* the edit reverted, each after the debounce period: the session is Idle
C8_Witness ==
    /\ Idle
    /\ app.currentDebugStep = 2
    /\ app.status = "success"
    /\ edits = 2
    /\ app.asm = T_OP_DUP
    /\ app.debAsm = T_OP_DUP
    /\ app.previousTerms = <<T_OP_DUP>>

\* C9: in every reachable state of the Debug Session current_step_index lies
\* in [0, trace.length], trace.length taken as 0 when no trace is present.
C9_StepIndexInRange ==
    app.currentDebugStep \in 0..TraceLength

\* C10: with a non-empty trace loaded, a step-forward never moves
\* current_step_index past trace.length; the step at which the index first
\* equals trace.length sets the step status to the trace's reported status;
\* a step-forward at trace.length leaves index and step status unchanged.
C10_StepClamping ==
    [][(DebugForward /\ ~noTrace(app.trace)) =>
          /\ app'.trace = app.trace
          /\ app'.currentDebugStep <= TraceLength
          /\ (app.currentDebugStep < TraceLength /\ app'.currentDebugStep = TraceLength)
                => app'.currentStepStatus = app.status
          /\ app.currentDebugStep = TraceLength
                => /\ app'.currentDebugStep = app.currentDebugStep
                   /\ app'.currentStepStatus = app.currentStepStatus]_vars

\* a two-step trace that the engine reported as failed is at its last step
C10_Witness ==
    /\ TraceLength = 2
    /\ app.currentDebugStep = 2
    /\ app.status = "error"
    /\ app.currentStepStatus = "error"
    /\ ~isSet(app.error)

\* the step applies the body data of an ok response to the k-th request
Applies(k, data) ==
    /\ k \in 1..Len(inflight)
    /\ inflight' = Without(k)
    /\ app' = commit(app, applyResponse(inflight[k], data))

\* the info line that handleServerRequest ends with
finalInfo(data) ==
    IF data.status = "success" THEN SuccessInfo
    ELSE IF data.status = "error" THEN WarningInfo(data.error)
    ELSE NoInfo

\* C11: when a run response with a trace is applied, current_step_index
\* becomes 1 if the request came from a step action and trace.length if it
\* came from the run-to-end action; a trace with zero steps puts the session
\* in Terminal with the reported status, and the handler completes.
C11_LoadTrace ==
    [][\A k \in 1..Len(inflight), data \in EngineData :
          (data.trace.kind = "array" /\ Applies(k, data)) =>
             /\ app'.trace = data.trace
             /\ Len(data.trace.steps) > 0 =>
                   app'.currentDebugStep = IF inflight[k].is_last
                                           THEN Len(data.trace.steps) ELSE 1
             /\ Len(data.trace.steps) = 0 =>
                   /\ app'.currentStepStatus = data.status
                   /\ app'.info = finalInfo(data)]_vars

\* C12 as stated: with a trace present, step-backward decrements
\* current_step_index by 1 but never below 1, and never clears the trace.
C12_StepBackward ==
    [][(DebugBackward /\ ~noTrace(app.trace)) =>
          /\ app'.trace = app.trace
          /\ app'.currentDebugStep = Max(app.currentDebugStep - 1, 1)]_vars

\* C12: with a trace present, step-backward never clears the trace; while no
\* conversion error is shown it decrements current_step_index by 1 but never
\* below 1, and while one is shown it leaves the index as it is.
C12_StepBackwardUnlessError ==
    [][(DebugBackward /\ ~noTrace(app.trace)) =>
          /\ app'.trace = app.trace
          /\ app'.currentDebugStep = IF isSet(app.error) THEN app.currentDebugStep
                                     ELSE Max(app.currentDebugStep - 1, 1)]_vars

\* a two-step trace was loaded at its end and stepped back to step 1: the
\* info line is the byte count that the step's normalizeData wrote
C12_Witness ==
    /\ TraceLength = 2
    /\ app.currentDebugStep = 1
    /\ app.currentStepStatus = ""
    /\ app.info.kind = "bytes"
    /\ ~isSet(app.error)

\* C13: a response to a run request is not applied while a later run request
\* is in flight (the later request supersedes it), or no second request is
\* ever in flight; the session never holds the earlier request's trace.
C13_SingleOutstandingRequest ==
    [][\A k \in 1..Len(inflight), data \in EngineData :
          (k < Len(inflight) /\ ~noTrace(data.trace) /\ Applies(k, data)) =>
             app'.trace = app.trace]_vars

\* C14: when a run request was sent, the source tokens were then edited and
\* the response arrives afterwards, the response's trace and the pc map built
\* for it are not installed.
C14_NoStaleTraceAcrossEdits ==
    [][\A k \in 1..Len(inflight), data \in EngineData :
          (/\ ~noTrace(data.trace)
           /\ Applies(k, data)
           /\ TokenText(inflight[k].c.asm) # TokenText(app.asm)) =>
             /\ app'.trace = app.trace
             /\ app'.pcWordMap = app.pcWordMap]_vars

\* the Debug Session held in state s: trace (absent or the steps), step
\* index, terminal status, reported status, error detail, pc map, stack views
SessionOf(s) ==
    [trace             |-> IF s.trace.kind = "array" THEN s.trace ELSE TraceFalse,
     currentDebugStep  |-> s.currentDebugStep,
     currentStepStatus |-> s.currentStepStatus,
     status            |-> s.status,
     executionError    |-> s.executionError,
     pcWordMap         |-> s.pcWordMap,
     stackData         |-> s.stackData,
     altStackData      |-> s.altStackData]

\* the step ends a run request in failure: the fetch rejects, the response is
\* not ok, or its body has no trace
RequestFails ==
    \/ FetchFails
    \/ ResponseNotOk
    \/ \E k \in 1..Len(inflight), data \in EngineData :
          data.trace.kind # "array" /\ Applies(k, data)

\* C15: a failed run request (connection failure, non-OK response, body
\* without a well-formed trace) leaves trace, current_step_index, terminal
\* status, error detail, pc map and stack views exactly as they were.
C15_FailedRequestChangesNothing ==
    [][RequestFails => SessionOf(app') = SessionOf(app)]_vars

\* C16: while the current source text fails assembly (an error is set), the
\* pc map is neither recomputed nor cleared: every step that ends with the
\* error set leaves the pc map as it was.
C16_MapKeptWhileError ==
    [][isSet(app'.error) => app'.pcWordMap = app.pcWordMap]_vars

\* map[pc] + d in the pc map of the session; for a pc that the map lacks,
\* undefined + 1 is NaN and undefined itself stays undefined
MapEntryPlus(pc, d) ==
    IF Twice(pc) \in DOMAIN app.pcWordMap THEN Num(app.pcWordMap[Twice(pc)] + d)
    ELSE IF d = 0 THEN Undefined
    ELSE NaN

\* C26: at every non-terminal step s (1 <= s < trace.length) the displayed pc
\* is trace[s-1].pc, the highlighted token index is map[pc] + 1, and the stack
\* and alt-stack texts are the newline-joined stack and altstack of
\* trace[s-1]; at step = trace.length the pc, stack and alt-stack come from the
\* last trace step and the highlight is map[pc] without the + 1.
C26_DerivedDisplay ==
    (TraceLoaded /\ app.currentDebugStep \in 1..TraceLength) =>
        LET s    == app.currentDebugStep
            step == app.trace.steps[s]
        IN  /\ app.pc = step.pc
            /\ app.stackData = join(step.stack, <<"\n">>)
            /\ app.altStackData = join(step.altstack, <<"\n">>)
            /\ app.debugWord = MapEntryPlus(step.pc, IF s < TraceLength THEN 1 ELSE 0)

\* the first step of a two-step trace is shown: pc 0, the first token
\* highlighted, both stack views empty
C26_Witness ==
    /\ TraceLength = 2
    /\ app.currentDebugStep = 1
    /\ app.pc = 0
    /\ app.debugWord = Num(1)
    /\ app.stackData = <<>>
    /\ app.pcWordMap # EmptyObject

\* the empty Debug Session: trace absent, step index 0, no terminal status,
\* empty error detail
EmptySessionOf(s) ==
    /\ s.trace.kind # "array"
    /\ s.currentDebugStep = 0
    /\ s.currentStepStatus = ""
    /\ s.executionError = ""

\* the step changes the tokens of the debounced source, so that the effect
\* runs its reset block
SourceEditReset == TokenText(app'.debAsm) # TokenText(app.debAsm)

\* C22: a source-edit reset returns the Debug Session to the empty session:
\* after it the trace is absent, current_step_index is 0, terminal_status is
\* none and error_detail is empty.
C22_ResetToEmptySession ==
    [][SourceEditReset => EmptySessionOf(app')]_vars

\* what the session shows of state s: trace, step index, pc, pc map and the
\* stack views
DisplayOf(s) ==
    <<s.trace, s.currentDebugStep, s.pc, s.pcWordMap, s.stackData, s.altStackData>>

\* the step changes the debounced source in its whitespace only
WhitespaceEdit ==
    /\ app'.debAsm # app.debAsm
    /\ TokenText(app'.debAsm) = TokenText(app.debAsm)

\* C28: an edit that changes only whitespace (the whitespace-split token
\* sequence of the debounced source is unchanged) does not reset the session:
\* trace, current step index, pc, pc map and stack views keep their values.
C28_WhitespaceEditKeepsSession ==
    [][WhitespaceEdit => DisplayOf(app') = DisplayOf(app)]_vars

\* a two-step trace is at its last step and the debounced source is the
\* text with a space added after its token
C28_Witness ==
    /\ TraceLength = 2
    /\ app.currentDebugStep = 2
    /\ app.stackData # <<>>
    /\ app.debAsm = T_OP_DUP \o <<" ">>
    /\ app.previousTerms = <<T_OP_DUP>>
    /\ edits = 1

\* the data-literal rendering of the disassembly of the bytecode written hex
DataLiteralOf(hex) ==
    LET terms == splitWs(hexToAsm(hex).val)
    IN  <<"[">>
        \o join(AsSeq([i \in 1..Len(terms) |-> pyTerm(terms[i])]), <<",", " ">>)
        \o <<"]">>

\* the brace-initializer rendering of the bytecode written hex
BraceInitializerOf(hex) ==
    IF hex = <<>> THEN <<>> ELSE bytesToCpp(hexToBytes(hex).val)

\* the export views of state s are those of its bytecode
ExportViewsCurrent(s) ==
    /\ s.python = DataLiteralOf(s.hex)
    /\ s.cpp = BraceInitializerOf(s.hex)

\* the step is the normalization that follows an edit of the ASM or HEX text
NormalizesEdit == DebounceAsm \/ DebounceHex

\* C23: after normalization has run for a change of the program (an ASM edit
\* or a HEX edit, in whichever tab is active) and succeeded, the data-literal
\* view is the rendering of the disassembly of the current bytecode and the
\* brace-initializer view is the rendering of the current bytecode.
C23_ExportViewsFollowSource ==
    [][(NormalizesEdit /\ ~isSet(app'.error) /\ hexToAsm(app'.hex).ok)
          => ExportViewsCurrent(app')]_vars

\* the step sends a run request
RequestSent == Len(inflight') = Len(inflight) + 1

\* body.input of the request the step sends: the hex of the render's closure
SentInput == inflight'[Len(inflight')].c.hex

\* C24: every run request that is sent carries as its input the lowercase,
\* whitespace-free hex of the bytecode assembled from the ASM source as it
\* stands when the request is triggered (also when the source was edited
\* less than one debounce period before), and no request is sent while that
\* source fails to assemble.
C24_RequestCarriesCurrentBytecode ==
    [][RequestSent =>
          /\ asmToBytes(app.asm).ok
          /\ SentInput = bytesToHex(asmToBytes(app.asm).val)]_vars

\* ---- properties of the codec, continued ----
\* the byte values of the Opcode Table
TableValues == {OpcValue(t) : t \in OpcNames}

\* the number of length bytes after push opcode op, 0 for an inline push, and
\* -1 for a byte that starts no push
LengthBytes(op) ==
    IF op >= 1 /\ op <= 75 THEN 0
    ELSE IF op = 76 THEN 1
    ELSE IF op = 77 THEN 2
    ELSE IF op = 78 THEN 4
    ELSE -1

RECURSIVE CursorReachesUnknown(_, _)
\* a cursor that walks bytes from offset i over whole pushes, small integers
\* and table opcodes arrives at a byte that is none of them
CursorReachesUnknown(bytes, i) ==
    IF i >= Len(bytes) THEN FALSE
    ELSE LET op == bytes[i + 1]
             n  == LengthBytes(op)
         IN  IF n >= 0
             THEN LET len == IF n = 0 THEN op ELSE readLE(bytes, i + 1, n)
                  IN  /\ i + 1 + n <= Len(bytes)
                      /\ len <= Len(bytes) - (i + 1 + n)
                      /\ CursorReachesUnknown(bytes, i + 1 + n + len)
             ELSE IF op \in {0, 79} \cup (81..96) \cup TableValues
             THEN CursorReachesUnknown(bytes, i + 1)
             ELSE TRUE

\* token t has the raw form 0xNN
IsRawHex(t) == Len(t) >= 2 /\ t[1] = "0" /\ t[2] = "x"

\* the tokens of a disassembly
TokensOfText(text) == splitWs(trim(text))

BracketForm(t) == Len(t) >= 2 /\ t[1] = "<" /\ t[Len(t)] = ">"

\* what stands between the brackets of t
Content(t) == SubSeq(t, 2, Len(t) - 1)

\* an even-length, hex-only, non-empty digit string
ValidContent(h) == h # <<>> /\ Len(h) % 2 = 0 /\ \A i \in 1..Len(h) : h[i] \in HexChars

\* the bytes that the hex digits h stand for
DecodedBytes(h) ==
    AsSeq([i \in 1..(Len(h) \div 2) |->
              16 * HexDigitValue(h[2 * i - 1]) + HexDigitValue(h[2 * i])])

\* the minimal push of payload: the smallest prefix form, then the payload
MinimalPushOf(payload) ==
    LET n == Len(payload)
    IN  (IF n <= 75 THEN <<n>>
         ELSE IF n <= 255 THEN <<76, n>>
         ELSE IF n <= 65535 THEN <<77, n % 256, n \div 256>>
         ELSE <<78, n % 256, (n \div 256) % 256, (n \div 65536) % 256, n \div 16777216>>)
        \o payload

\* in the assembly conv[1] of the ASM input, the k-th token is bracketed and
\* the tokens before it assemble: rule 1 decides, and Fails(t) is the error
\* required for invalid content
BracketRule(Fails(_)) ==
    (input.kind = "asm" /\ conv # <<>>) =>
        With(asmTokens(input.val), LAMBDA toks :
        \A k \in 1..Len(toks) :
           BracketForm(toks[k]) =>
              With(asmLoop(SubSeq(toks, 1, k - 1), 1, <<>>), LAMBDA before :
              before.ok =>
                 IF ValidContent(Content(toks[k]))
                 THEN With(MinimalPushOf(DecodedBytes(Content(toks[k]))), LAMBDA push :
                      IF conv[1].ok
                      THEN SubSeq(conv[1].val, Len(before.val) + 1,
                                  Len(before.val) + Len(push)) = push
                      ELSE conv[1].tok # toks[k])
                 ELSE conv[1] = Fails(toks[k])))

InvalidHexData(t) == Throw("Invalid hex data: ", t)

\* the error of rule 1 for odd-length hex digits, of rule 6 for other content
InvalidHexDataOrUnrecognized(t) ==
    IF Content(t) # <<>> /\ \A i \in 1..Len(Content(t)) : Content(t)[i] \in HexChars
    THEN Throw("Invalid hex data: ", t)
    ELSE Throw("Unrecognized token: ", t)

\* C18 as stated: every bracketed token whose content is not an even-length,
\* hex-only digit string (odd length, a non-hex character, or empty) fails
\* with InvalidHexData naming the token; valid content emits the minimal push
\* of the decoded bytes.
C18_BracketedInvalidHexData == BracketRule(InvalidHexData)

\* C18: a bracketed token whose content is hex digits of odd length fails
\* with InvalidHexData naming the token; one whose content is empty or has a
\* non-hex character fails with UnrecognizedToken naming the token; valid
\* content emits the minimal push of the decoded bytes.
C18_BracketedHexRule == BracketRule(InvalidHexDataOrUnrecognized)

\* a text whose second token is bracketed with a non-hex character was
\* assembled, and the assembly failed naming that token
C18_Witness ==
    /\ input.kind = "asm"
    /\ conv # <<>>
    /\ Len(asmTokens(input.val)) = 2
    /\ BracketForm(asmTokens(input.val)[2])
    /\ \E i \in 1..Len(Content(asmTokens(input.val)[2])) :
          Content(asmTokens(input.val)[2])[i] \notin HexChars
    /\ ~conv[1].ok
    /\ conv[1].tok = asmTokens(input.val)[2]

\* the four views of the script held in state s
ViewsOf(s) == [hex |-> s.hex, asm |-> s.asm, python |-> s.python, cpp |-> s.cpp]

\* the step runs normalizeData once, in the effect, and nothing else that
\* writes a view
NormalizesOnce == DebounceAsm \/ DebounceHex \/ SetTab

\* C19: whenever an assemble or disassemble step fails during normalizeData
\* (the normalization ends with the error set), the hex, ASM, data-literal and
\* brace-initializer views keep the values they had before it.
C19_NoHalfConvertedResult ==
    [][(NormalizesOnce /\ isSet(app'.error)) => ViewsOf(app') = ViewsOf(app)]_vars

\* the small integers, and the one byte of each
SmallInts == -1..16

SmallIntByte(n) == IF n = -1 THEN 79 ELSE IF n = 0 THEN 0 ELSE 80 + n

IsSmallIntToken(t) == \E n \in SmallInts : t = Decimal(n)

SmallIntOf(t) == CHOOSE n \in SmallInts : t = Decimal(n)

\* C20: a text of decimal tokens n in {-1, 0, 1..16} assembles to exactly one
\* byte per token (0x4f for -1, 0x00 for 0, 0x50 + n for 1..16), and those
\* bytes disassemble to exactly the same tokens joined by newlines.
C20_SmallIntegers ==
    (input.kind = "asm" /\ conv # <<>>) =>
        With(asmTokens(input.val), LAMBDA toks :
        (toks # <<>> /\ \A k \in 1..Len(toks) : IsSmallIntToken(toks[k])) =>
            /\ conv[1] = Ok(AsSeq([k \in 1..Len(toks) |-> SmallIntByte(SmallIntOf(toks[k]))]))
            /\ Len(conv) >= 2 => conv[2] = Ok(join(toks, <<"\n">>)))

\* the text "-1 0 1 16" was assembled to 4f 00 51 60 and disassembled again
C20_Witness ==
    /\ input.kind = "asm"
    /\ input.val = <<"-","1"," ","0"," ","1"," ","1","6">>
    /\ Len(conv) >= 2
    /\ conv[1] = Ok(<<79, 0, 81, 96>>)
    /\ conv[2].ok

\* token t is canonical: a decimal small integer, a bracketed literal of
\* non-empty, even-length, lowercase hex, or the first-registered mnemonic of
\* an opcode outside the push range and the small-integer range
IsCanonicalToken(t) ==
    \/ IsSmallIntToken(t)
    \/ /\ BracketForm(t)
       /\ With(Content(t), LAMBDA h :
               ValidContent(h) /\ \A i \in 1..Len(h) : h[i] \in {LowerHex[d] : d \in 1..16})
    \/ /\ t \in OpcNames
       /\ OpcValue(t) = 80 \/ OpcValue(t) > 96
       /\ \A k \in 1..Len(OPC) :
             OPC[k][1] = t => \A j \in 1..(k - 1) : OPC[j][2] # OpcValue(t)

\* C25: for every token sequence T made only of canonical tokens,
\* disassemble(assemble(T)) is the same tokens in the same order, one per
\* line; the P2PKH example assembles to 76a914 00112233..00112233 88ac.
C25_CanonicalRoundTrip ==
    (input.kind = "asm" /\ Len(conv) >= 2) =>
        With(Tokens(input.val), LAMBDA T :
        (\A k \in 1..Len(T) : IsCanonicalToken(T[k])) =>
            /\ conv[1].ok
            /\ conv[2].ok
            /\ conv[2].val = join(T, <<"\n">>)
            /\ input.val = T_P2PKH =>
                  conv[1].val = <<118, 169, 20>> \o DecodedBytes(P2PKH_Hash)
                                \o <<136, 172>>)

\* the P2PKH example was assembled to its 25 bytes and disassembled to five
\* lines
C25_Witness ==
    /\ input.kind = "asm"
    /\ input.val = T_P2PKH
    /\ Len(conv) >= 2
    /\ conv[1].ok
    /\ Len(conv[1].val) = 25
    /\ conv[2].ok
    /\ Len(splitLines(conv[2].val)) = 5

\* the index in the Opcode Table of the first entry declared for byte b
FirstDeclared(b) ==
    CHOOSE k \in 1..Len(OPC) : OPC[k][2] = b /\ \A j \in 1..(k - 1) : OPC[j][2] # b

\* the byte that the assembler emitted for the single mnemonic of the input
EmittedByte == conv[1].val[1]

\* C27: for every byte value that has at least one mnemonic, byte_to_name
\* returns the first-declared mnemonic for it, name_to_byte(byte_to_name(b))
\* is b, and every alias of the byte maps through name_to_byte to that byte.
C27_FirstWinsAliasing ==
    (input.kind = "asm" /\ input.val \in OpcNames /\ conv # <<>>) =>
        /\ conv[1].ok
        /\ Len(conv[1].val) = 1
        /\ \E k \in 1..Len(OPC) : OPC[k] = <<input.val, EmittedByte>>
        /\ VAL2NAME_has(EmittedByte)
        /\ VAL2NAME_get(EmittedByte) = OPC[FirstDeclared(EmittedByte)][1]
        /\ asmToBytes(VAL2NAME_get(EmittedByte)) = Ok(<<EmittedByte>>)
        /\ \A k \in 1..Len(OPC) :
              OPC[k][2] = EmittedByte => asmToBytes(OPC[k][1]) = Ok(<<EmittedByte>>)

\* the alias OP_1 was assembled to 0x51, whose name in VAL2NAME is OP_TRUE
C27_Witness ==
    /\ input.kind = "asm"
    /\ input.val = <<"O","P","_","1">>
    /\ conv # <<>>
    /\ conv[1] = Ok(<<81>>)
    /\ VAL2NAME_get(81) = <<"O","P","_","T","R","U","E">>

\* ---- properties of the normalization, continued ----
\* the step runs normalizeData once, with a tab other than ASM active
NormalizesOffAsmTab ==
    (NormalizesOnce \/ RunOnServer) /\ app'.activeTab # "ASM"

\* the cleaned hex that the step's normalization works from
CleanedHex == IF app'.debHex # <<>> THEN cleanHex(app'.debHex) ELSE <<>>

\* the ASM text before the step assembles to the cleaned hex
AssemblesToCleanedHex ==
    asmToBytes(app.asm).ok /\ bytesToHex(asmToBytes(app.asm).val) = CleanedHex

\* C29: normalization from a non-ASM tab preserves the user's ASM text: if
\* the current ASM already assembles to the cleaned hex, the ASM text is left
\* unchanged (alias spellings and spacing kept); only when the two differ is
\* the ASM replaced, by the disassembly of the hex (or by the empty text for
\* empty hex).
C29_NonAsmTabKeepsAsmText ==
    [][NormalizesOffAsmTab =>
          /\ AssemblesToCleanedHex => app'.asm = app.asm
          /\ app'.asm # app.asm =>
                /\ ~AssemblesToCleanedHex
                /\ app'.asm = IF CleanedHex = <<>> THEN <<>>
                              ELSE hexToAsm(CleanedHex).val]_vars

\* the HEX tab is open on 76 and the ASM text still has the space that was
\* typed after its token
C29_Witness ==
    /\ app.activeTab = "HEX"
    /\ app.asm = T_OP_DUP \o <<" ">>
    /\ app.debAsm = app.asm
    /\ app.hex = <<"7","6">>
    /\ app.debHex = app.hex
    /\ ~isSet(app.error)

\* ---- properties of the breakpoints of the editor ----
\* the lines that carry a breakpoint decoration in editor record ed
BreakpointSet(ed) == {ed.decorations[i] : i \in 1..Len(ed.decorations)}

\* list is ascending without duplicates
StrictlyAscending(list) == \A i \in 1..(Len(list) - 1) : list[i] < list[i + 1]

\* the step is a gutter click
Clicked == input'.kind = "click" /\ edits' = edits + 1

\* C30: a gutter click on line L adds L to the breakpoint set when absent and
\* removes it when present, leaving every other line's breakpoint unchanged;
\* the list reported to the parent is sorted ascending without duplicates and
\* is reported only when it differs from the last reported list, so two
\* clicks on the same line restore the previously reported list.
C30_BreakpointToggling ==
    [][Clicked =>
          LET L == input'.val
          IN  /\ BreakpointSet(editor') =
                    IF L \in BreakpointSet(editor) THEN BreakpointSet(editor) \ {L}
                    ELSE BreakpointSet(editor) \cup {L}
              /\ StrictlyAscending(editor'.breakpoints)
              /\ BreakpointSet(editor') =
                    {editor'.breakpoints[i] : i \in 1..Len(editor'.breakpoints)}
              /\ editor'.reports # editor.reports
                    => editor'.breakpoints # editor.breakpoints
              /\ onMouseDown(editor', L).breakpoints = editor.breakpoints]_vars

\* line 1 was clicked after line 3: both carry a breakpoint, the decoration
\* of line 3 comes first in the ref and the reported list is 1, 3
C30_Witness ==
    /\ input.kind = "click"
    /\ input.val = 1
    /\ editor.decorations = <<3, 1>>
    /\ editor.breakpoints = <<1, 3>>
    /\ editor.reports = 2

====
